---- MODULE Spec2Model ----
(***************************************************************************)
(* Model of the GeoMorpher engine (core/geomorpher.js) together with the   *)
(* helpers it calls: utils/enrichment.js, utils/cartogram.js,              *)
(* utils/projection.js and the legacy geoMorpher(options) wrapper.         *)
(*                                                                         *)
(* Conventions                                                             *)
(*  - a coordinate is a pair <<x, y>> of integers, in units of 1e-4 of the *)
(*    source coordinate unit (so MIN_PLACEHOLDER_SIZE = 1e-4 is 1 unit);   *)
(*  - a ring is a sequence of coordinates; an optional ring (ring | null)  *)
(*    is a sequence holding zero or one ring;                              *)
(*  - a geometry is [type, polys]: polys is the list of polygons, each a   *)
(*    list of rings; a Polygon geometry has exactly one polygon;           *)
(*  - a morph factor is an integer number of thousandths (500 is 0.5);     *)
(*    NaNFactor stands for the non-finite arguments (NaN, +-Infinity);     *)
(*  - a JS object used as a map is a sequence of [key, value] entries in   *)
(*    insertion order (Object.entries order for non-numeric keys);         *)
(*  - a string join key "" stands for every falsy key (undefined, "").     *)
(***************************************************************************)
EXTENDS Integers, Sequences, FiniteSets, TLC

\* ---------------------------------------------------------------- bounds
\* number of prepare() invocations explored on one instance
MaxCalls == 2

\* ------------------------------------------------------ program constants
\* RING_VISIBILITY_EPSILON = 1e-3, in thousandths of the factor
RING_VISIBILITY_EPSILON == 1
\* PLACEHOLDER_SCALE = 0.02, in percent
PLACEHOLDER_SCALE == 2
\* MIN_PLACEHOLDER_SIZE = 1e-4, in coordinate units
MIN_PLACEHOLDER_SIZE == 1
\* the factor 1.0 in thousandths
FactorOne == 1000
\* a non-finite factor argument (NaN, Infinity, -Infinity)
NaNFactor == 1000000
\* getInterpolatedFeatureCollection(factor = 0.5)
DefaultFactor == 500

\* ------------------------------------------------------------ generic helpers
Max2(a, b) == IF a >= b THEN a ELSE b

Min2(a, b) == IF a <= b THEN a ELSE b

RECURSIVE SeqFilterMin(_, _)
\* rings.filter((ring) => Array.isArray(ring) && ring.length >= n)
SeqFilterMin(rings, n) ==
  IF rings = <<>> THEN <<>>
  ELSE IF Len(Head(rings)) >= n
       THEN <<Head(rings)>> \o SeqFilterMin(Tail(rings), n)
       ELSE SeqFilterMin(Tail(rings), n)

\* ------------------------------------------------------------- clampFactor
clampFactor(value) ==
  IF value = NaNFactor THEN 0
  ELSE IF value <= 0 THEN 0
  ELSE IF value >= FactorOne THEN FactorOne
  ELSE value

\* ------------------------------------------------------------ ring helpers
ensureClosedRing(ring) ==
  IF Len(ring) = 0 THEN <<>>
  ELSE IF ring[1] = ring[Len(ring)] THEN ring
  ELSE Append(ring, ring[1])

RECURSIVE MultiOuterRings(_)
\* polygons.map(p => p[0] ? ensureClosedRing(p[0]) : null)
\*         .filter(ring => Array.isArray(ring) && ring.length >= 3)
MultiOuterRings(polys) ==
  IF polys = <<>> THEN <<>>
  ELSE LET polygon == Head(polys)
           rest == MultiOuterRings(Tail(polys))
       IN IF Len(polygon) > 0 /\ Len(ensureClosedRing(polygon[1])) >= 3
          THEN <<ensureClosedRing(polygon[1])>> \o rest
          ELSE rest

extractOuterRings(geometry) ==
  IF geometry.type = "Polygon"
  THEN IF Len(geometry.polys[1]) > 0
       THEN <<ensureClosedRing(geometry.polys[1][1])>>
       ELSE <<>>
  ELSE IF geometry.type = "MultiPolygon"
  THEN MultiOuterRings(geometry.polys)
  ELSE <<>>

RECURSIVE SumCoord(_, _)
SumCoord(ring, axis) ==
  IF ring = <<>> THEN 0 ELSE Head(ring)[axis] + SumCoord(Tail(ring), axis)

\* the centroid [sumX / count, sumY / count] as the exact triple
\* <<sumX, sumY, count>>; [0, 0] is <<0, 0, 1>>
computeRingCentroid(ring) ==
  IF Len(ring) = 0 THEN <<0, 0, 1>>
  ELSE <<SumCoord(ring, 1), SumCoord(ring, 2), Len(ring)>>

RECURSIVE MinCoord(_, _)
MinCoord(ring, axis) ==
  IF Len(ring) = 1 THEN ring[1][axis]
  ELSE Min2(Head(ring)[axis], MinCoord(Tail(ring), axis))

RECURSIVE MaxCoord(_, _)
MaxCoord(ring, axis) ==
  IF Len(ring) = 1 THEN ring[1][axis]
  ELSE Max2(Head(ring)[axis], MaxCoord(Tail(ring), axis))

computeRingBounds(ring) ==
  IF Len(ring) = 0 THEN [width |-> 0, height |-> 0]
  ELSE [width |-> Max2(MaxCoord(ring, 1) - MinCoord(ring, 1), 0),
        height |-> Max2(MaxCoord(ring, 2) - MinCoord(ring, 2), 0)]

\* the square of half-width offset around [cx, cy]
PlaceholderSquare(cx, cy, offset) ==
  <<ensureClosedRing(<< <<cx - offset, cy - offset>>,
                        <<cx + offset, cy - offset>>,
                        <<cx + offset, cy + offset>>,
                        <<cx - offset, cy + offset>> >>)>>

\* c is the centroid triple and b the bounds of the reference ring
PlaceholderAround(c, b) ==
  PlaceholderSquare(c[1] \div c[3], c[2] \div c[3],
                    Max2((Max2(b.width, b.height) * PLACEHOLDER_SCALE) \div 100,
                         MIN_PLACEHOLDER_SIZE))

\* an optional ring: <<>> is null, <<ring>> is the placeholder square
createPlaceholderRing(referenceRing) ==
  IF Len(referenceRing) = 0 THEN <<>>
  ELSE PlaceholderAround(computeRingCentroid(referenceRing),
                         computeRingBounds(referenceRing))

\* compares dx*dx + dy*dy of two centroid pairs without dividing:
\* TRUE iff distanceSquared(a, b1) < distanceSquared(a, b2)
DistanceLess(a, b1, b2) ==
  LET n1 == (a[1] * b1[3] - b1[1] * a[3]) * (a[1] * b1[3] - b1[1] * a[3])
          + (a[2] * b1[3] - b1[2] * a[3]) * (a[2] * b1[3] - b1[2] * a[3])
      n2 == (a[1] * b2[3] - b2[1] * a[3]) * (a[1] * b2[3] - b2[1] * a[3])
          + (a[2] * b2[3] - b2[2] * a[3]) * (a[2] * b2[3] - b2[2] * a[3])
  IN n1 * (b2[3] * b2[3]) < n2 * (b1[3] * b1[3])

RECURSIVE BestIndex_Last(_, _, _, _)
\* BestIndex taking the last index of minimal distance
BestIndex_Last(centroid, pool, index, best) ==
  IF index > Len(pool) THEN best
  ELSE IF best = 0
          \/ ~DistanceLess(centroid, computeRingCentroid(pool[best]),
                           computeRingCentroid(pool[index]))
       THEN BestIndex_Last(centroid, pool, index + 1, index)
       ELSE BestIndex_Last(centroid, pool, index + 1, best)

RECURSIVE BestIndex(_, _, _, _)
\* the inner loop of matchRingPairs: the first index of minimal distance
BestIndex(centroid, pool, index, best) ==
  IF index > Len(pool) THEN best
  ELSE IF best = 0
          \/ DistanceLess(centroid, computeRingCentroid(pool[index]),
                          computeRingCentroid(pool[best]))
       THEN BestIndex(centroid, pool, index + 1, index)
       ELSE BestIndex(centroid, pool, index + 1, best)

RemoveAt(s, i) == SubSeq(s, 1, i - 1) \o SubSeq(s, i + 1, Len(s))

RECURSIVE RemainingPairs(_)
RemainingPairs(pool) ==
  IF pool = <<>> THEN <<>>
  ELSE <<[fromRing |-> <<>>, toRing |-> <<Head(pool)>>]>> \o RemainingPairs(Tail(pool))

RECURSIVE MatchFrom(_, _)
\* MatchStep without the splice: the matched ring stays in the pool
MatchStep_NoSplice(fromRings, toPool, bestIndex) ==
  IF bestIndex >= 1
  THEN <<[fromRing |-> <<Head(fromRings)>>, toRing |-> <<toPool[bestIndex]>>]>>
         \o MatchFrom(Tail(fromRings), toPool)
  ELSE <<[fromRing |-> <<Head(fromRings)>>, toRing |-> <<>>]>>
         \o MatchFrom(Tail(fromRings), toPool)

\* one iteration of the outer loop of matchRingPairs, bestIndex being the
\* index the inner loop found (0: none left)
MatchStep(fromRings, toPool, bestIndex) ==
  IF bestIndex >= 1
  THEN <<[fromRing |-> <<Head(fromRings)>>, toRing |-> <<toPool[bestIndex]>>]>>
         \o MatchFrom(Tail(fromRings), RemoveAt(toPool, bestIndex))
  ELSE <<[fromRing |-> <<Head(fromRings)>>, toRing |-> <<>>]>>
         \o MatchFrom(Tail(fromRings), toPool)

MatchFrom(fromRings, toPool) ==
  IF fromRings = <<>> THEN RemainingPairs(toPool)
  ELSE MatchStep(fromRings, toPool,
                 BestIndex(computeRingCentroid(Head(fromRings)), toPool, 1, 0))

matchRingPairs(fromRings, toRings) == MatchFrom(fromRings, toRings)

\* ------------------------------------------------- flubber.interpolate
\* flubber is a third-party library; it is modelled by its contract.
\* normalizeRing drops the closing coordinate of a closed ring.
FlubberOpen(ring) ==
  IF Len(ring) > 1 /\ ring[1] = ring[Len(ring)]
  THEN SubSeq(ring, 1, Len(ring) - 1)
  ELSE ring

\* flubber.interpolate(a, b) throws on a ring without coordinates
\* (polygonLength / addPoints read ring[n - 1][0])
FlubberThrows(a, b) == Len(a) = 0 \/ Len(b) = 0

Lerp(p, q, t) ==
  << (p[1] * (FactorOne - t) + q[1] * t) \div FactorOne,
     (p[2] * (FactorOne - t) + q[2] * t) \div FactorOne >>

\* two open rings brought to the same number of vertices (by repeating the
\* last vertex, which keeps the shape) and blended vertex by vertex
FlubberBlend(oa, ob, t) ==
  [i \in 1..Max2(Len(oa), Len(ob)) |->
     Lerp(oa[Min2(i, Len(oa))], ob[Min2(i, Len(ob))], t)]

\* the interpolator returned by flubber.interpolate(a, b, {string: false}),
\* evaluated at t; the result is an open ring
FlubberAt(a, b, t) == FlubberBlend(FlubberOpen(a), FlubberOpen(b), t)

\* ------------------------------------------------- createRingInterpolator
\* the interpolator of a ring without counterpart: towards its placeholder
\* (fromOnly), from its placeholder (toOnly), or the constant closed ring
\* when there is no placeholder
OneSidedInterpolator(mode, ring, placeholder) ==
  IF placeholder = <<>>
  THEN [status |-> "ok", mode |-> mode, constant |-> TRUE,
        from |-> ensureClosedRing(ring), to |-> ensureClosedRing(ring)]
  ELSE IF mode = "fromOnly"
  THEN [status |-> "ok", mode |-> mode, constant |-> FALSE,
        from |-> ring, to |-> placeholder[1]]
  ELSE [status |-> "ok", mode |-> mode, constant |-> FALSE,
        from |-> placeholder[1], to |-> ring]

\* a ring interpolator is [mode, constant, from, to]; status "throw" is an
\* exception escaping from flubber.interpolate
createRingInterpolator(pair) ==
  IF pair.fromRing # <<>> /\ pair.toRing # <<>>
  THEN IF FlubberThrows(pair.fromRing[1], pair.toRing[1])
       THEN [status |-> "throw", mode |-> "both", constant |-> FALSE,
             from |-> <<>>, to |-> <<>>]
       ELSE [status |-> "ok", mode |-> "both", constant |-> FALSE,
             from |-> pair.fromRing[1], to |-> pair.toRing[1]]
  ELSE IF pair.fromRing # <<>>
  THEN OneSidedInterpolator("fromOnly", pair.fromRing[1],
                            createPlaceholderRing(pair.fromRing[1]))
  ELSE IF pair.toRing # <<>>
  THEN OneSidedInterpolator("toOnly", pair.toRing[1],
                            createPlaceholderRing(pair.toRing[1]))
  ELSE [status |-> "null", mode |-> "both", constant |-> FALSE,
        from |-> <<>>, to |-> <<>>]

\* isVisible with the boundary factors counted as visible
isVisible_Inclusive(entry, factor) ==
  IF entry.mode = "fromOnly" THEN factor <= FactorOne - RING_VISIBILITY_EPSILON
  ELSE IF entry.mode = "toOnly" THEN factor >= RING_VISIBILITY_EPSILON
  ELSE TRUE

\* isVisible with the two one-sided conditions exchanged
isVisible_Swapped(entry, factor) ==
  IF entry.mode = "fromOnly" THEN factor > RING_VISIBILITY_EPSILON
  ELSE IF entry.mode = "toOnly" THEN factor < FactorOne - RING_VISIBILITY_EPSILON
  ELSE TRUE

\* entry.isVisible(factor)
isVisible(entry, factor) ==
  IF entry.mode = "fromOnly" THEN factor < FactorOne - RING_VISIBILITY_EPSILON
  ELSE IF entry.mode = "toOnly" THEN factor > RING_VISIBILITY_EPSILON
  ELSE TRUE

\* entry.interpolate(factor)
RingInterpolate(entry, factor) ==
  IF entry.constant THEN entry.from
  ELSE FlubberAt(entry.from, entry.to, factor)

\* --------------------------------------------- createGeometryInterpolator
RECURSIVE MapRingInterpolators(_)
MapRingInterpolators(pairs) ==
  IF pairs = <<>> THEN <<>>
  ELSE <<createRingInterpolator(Head(pairs))>> \o MapRingInterpolators(Tail(pairs))

RECURSIVE KeepOk(_)
\* .filter((entry) => entry && typeof entry.interpolate === "function")
KeepOk(entries) ==
  IF entries = <<>> THEN <<>>
  ELSE IF Head(entries).status = "ok"
       THEN <<Head(entries)>> \o KeepOk(Tail(entries))
       ELSE KeepOk(Tail(entries))

NullInterpolator == [status |-> "null", type |-> "Polygon", entries |-> <<>>]

\* the interpolator object built from the ring interpolators that survive
\* the filter
InterpolatorOfEntries(fromType, toType, ringInterpolators) ==
  IF Len(ringInterpolators) = 0 THEN NullInterpolator
  ELSE [status |-> "ok",
        type |-> IF Len(ringInterpolators) = 1
                    /\ fromType # "MultiPolygon"
                    /\ toType # "MultiPolygon"
                 THEN "Polygon" ELSE "MultiPolygon",
        entries |-> ringInterpolators]

\* made is pairs.map(createRingInterpolator); an exception escapes
InterpolatorOfMade(fromType, toType, made) ==
  IF \E i \in 1..Len(made) : made[i].status = "throw"
  THEN [status |-> "throw", type |-> "Polygon", entries |-> <<>>]
  ELSE InterpolatorOfEntries(fromType, toType, KeepOk(made))

InterpolatorOfRings(fromType, toType, fromRings, toRings) ==
  IF Len(fromRings) = 0 /\ Len(toRings) = 0 THEN NullInterpolator
  ELSE InterpolatorOfMade(fromType, toType,
                          MapRingInterpolators(matchRingPairs(fromRings, toRings)))

\* createGeometryInterpolator that never decides for Polygon
createGeometryInterpolator_Multi(fromGeometry, toGeometry) ==
  InterpolatorOfRings("MultiPolygon", "MultiPolygon",
                      extractOuterRings(fromGeometry), extractOuterRings(toGeometry))

\* status "null": no interpolator; "throw": prepare() fails; "ok": built
createGeometryInterpolator(fromGeometry, toGeometry) ==
  InterpolatorOfRings(fromGeometry.type, toGeometry.type,
                      extractOuterRings(fromGeometry), extractOuterRings(toGeometry))

RECURSIVE VisibleRings(_, _)
\* the loop over ringInterpolators: invisible entries are skipped, the
\* others contribute ensureClosedRing(entry.interpolate(factor))
VisibleRings(entries, factor) ==
  IF entries = <<>> THEN <<>>
  ELSE IF ~isVisible(Head(entries), factor)
       THEN VisibleRings(Tail(entries), factor)
       ELSE <<ensureClosedRing(RingInterpolate(Head(entries), factor))>>
              \o VisibleRings(Tail(entries), factor)

\* ringsToUse.map((ring) => [ring])
WrapRings(ringsToUse) ==
  [length |-> Len(ringsToUse),
   polys |-> [i \in 1..Len(ringsToUse) |-> <<ringsToUse[i]>>]]

\* the return statements of interpolate; multiRings are the effective rings
\* of at least 4 positions
EmitCoordinates(type, effectiveRings, multiRings) ==
  IF type = "Polygon"
  THEN [length |-> 1,
        polys |-> << << IF Len(multiRings) > 0 THEN multiRings[1] ELSE <<>> >> >>]
  ELSE WrapRings(IF Len(multiRings) > 0 THEN multiRings ELSE effectiveRings)

EffectiveRings(rings, filteredRings) ==
  IF Len(filteredRings) > 0 THEN filteredRings ELSE rings

EmitRings(type, effectiveRings) ==
  EmitCoordinates(type, effectiveRings, SeqFilterMin(effectiveRings, 4))

SelectRings(type, rings) ==
  EmitRings(type, EffectiveRings(rings, SeqFilterMin(rings, 4)))

\* geometryInterpolator.interpolate(rawFactor): the returned coordinates as
\* [length |-> coordinates.length, polys |-> the list of polygons]
GeometryInterpolate(interpolator, rawFactor) ==
  SelectRings(interpolator.type,
              VisibleRings(interpolator.entries, clampFactor(rawFactor)))

\* ------------------------------------------------------------ enrichment
\* A data row is [lsoa |-> join key, population |-> raw value]; a raw value
\* is <<>> (null, undefined or ""), <<n>> (a number or numeric string) or
\* <<NonNumeric>> (a string Number() turns into NaN).  An aggregated or
\* feature-side value is <<>> (absent), the exact fraction <<n, d>> with
\* d > 0 (a finite number), NaNValue, or ArrayValue(raw values).
NonNumeric == 999999

NaNValue == <<0, 0>>

ArrayValue(values) == <<Len(values), 0>> \o values

\* Number.isFinite(value)
IsFiniteNumber(value) == Len(value) = 2 /\ value[2] > 0

RECURSIVE GCD(_, _)
GCD(a, b) == IF b = 0 THEN a ELSE GCD(b, a % b)

Fraction(n, d) ==
  LET g == GCD(IF n < 0 THEN -n ELSE n, d)
  IN IF n = 0 THEN <<0, 1>> ELSE <<n \div g, d \div g>>

\* a < b for two finite numbers
FractionLess(a, b) == a[1] * b[2] < b[1] * a[2]

RECURSIVE EntryIndex(_, _, _)
\* position of key among the entries of an object, 0 when absent
EntryIndex(entries, key, i) ==
  IF i > Len(entries) THEN 0
  ELSE IF entries[i].key = key THEN i
  ELSE EntryIndex(entries, key, i + 1)

\* object[key] = value: an existing key keeps its position
SetEntry(entries, key, value) ==
  LET i == EntryIndex(entries, key, 1)
  IN IF i = 0 THEN Append(entries, [key |-> key, value |-> value])
     ELSE [entries EXCEPT ![i] = [key |-> key, value |-> value]]

HasEntry(entries, key) == EntryIndex(entries, key, 1) # 0

GetEntry(entries, key) == entries[EntryIndex(entries, key, 1)].value

RECURSIVE groupByJoinColumn(_, _)
\* groups accumulated so far, then the rows still to add
groupByJoinColumn(groups, data) ==
  IF data = <<>> THEN groups
  ELSE LET item == Head(data)
           key == item.lsoa
       IN IF key = "" THEN groupByJoinColumn(groups, Tail(data))
          ELSE groupByJoinColumn(
                 SetEntry(groups, key,
                          IF HasEntry(groups, key)
                          THEN Append(GetEntry(groups, key), item)
                          ELSE <<item>>),
                 Tail(data))

RECURSIVE SumValues(_)
\* reduce((sum, val) => sum + (Number.isFinite(Number(val)) ? Number(val) : 0), 0)
SumValues(values) ==
  IF values = <<>> THEN 0
  ELSE (IF Head(values).population = <<>> THEN 0
        ELSE IF Head(values).population[1] = NonNumeric THEN 0
        ELSE Head(values).population[1])
       + SumValues(Tail(values))

RECURSIVE Dedupe(_)
\* Array.from(new Set(columnValues)): first occurrences, in order
Dedupe(columnValues) ==
  IF columnValues = <<>> THEN <<>>
  ELSE LET front == Dedupe(SubSeq(columnValues, 1, Len(columnValues) - 1))
           last == columnValues[Len(columnValues)]
       IN IF \E i \in 1..Len(front) : front[i] = last THEN front
          ELSE Append(front, last)

RECURSIVE FoldNumbers(_, _)
\* Math.min(...numericValues) for kind "min", Math.max for "max"
FoldNumbers(numericValues, kind) ==
  IF Len(numericValues) = 1 THEN numericValues[1]
  ELSE IF kind = "min"
       THEN Min2(Head(numericValues), FoldNumbers(Tail(numericValues), kind))
       ELSE Max2(Head(numericValues), FoldNumbers(Tail(numericValues), kind))

RECURSIVE SumNumbers(_)
SumNumbers(numericValues) ==
  IF numericValues = <<>> THEN 0
  ELSE Head(numericValues) + SumNumbers(Tail(numericValues))

\* the statistics computed over the numeric-coercible values only
NumericStatistic(numericValues, type) ==
  IF Len(numericValues) = 0 THEN [population |-> <<>>]
  ELSE IF type = "mean"
  THEN [population |-> Fraction(SumNumbers(numericValues), Len(numericValues))]
  ELSE [population |-> <<FoldNumbers(numericValues, type), 1>>]

\* the switch over the statistic kind; present are the rows whose column
\* value is not null, undefined or "".  A kind outside the switch (an
\* unknown name or a function) leaves the column out.  The kind
\* "categories", which synthesizes one column per value, is not explored.
AggregateColumn(present, columnValues, type) ==
  IF Len(present) = 0 THEN [population |-> <<>>]
  ELSE IF type = "sum" THEN [population |-> <<SumValues(present), 1>>]
  ELSE IF type = "count" THEN [population |-> <<Len(present), 1>>]
  ELSE IF type = "unique_count"
  THEN [population |-> <<Len(Dedupe(columnValues)), 1>>]
  ELSE IF type = "array" THEN [population |-> ArrayValue(Dedupe(columnValues))]
  ELSE IF type \in {"mean", "min", "max"}
  THEN NumericStatistic(SelectSeq(columnValues, LAMBDA v : v # NonNumeric), type)
  ELSE [population |-> <<>>]

\* values.map((item) => item?.[column]) for the rows of present
ColumnOf(present) == [i \in 1..Len(present) |-> present[i].population[1]]

PresentRows(values) == SelectSeq(values, LAMBDA item : item.population # <<>>)

\* aggregateGroup for the column `population`; type is the configured
\* entry of the aggregation spec
aggregateGroup(values, type) ==
  AggregateColumn(PresentRows(values), ColumnOf(PresentRows(values)), type)

RECURSIVE MapAggregate(_, _)
MapAggregate(groups, type) ==
  IF groups = <<>> THEN <<>>
  ELSE <<[key |-> Head(groups).key, value |-> aggregateGroup(Head(groups).value, type)]>>
         \o MapAggregate(Tail(groups), type)

RECURSIVE MinValue(_)
MinValue(nums) ==
  IF Len(nums) = 1 THEN nums[1]
  ELSE IF FractionLess(Head(nums), MinValue(Tail(nums))) THEN Head(nums)
  ELSE MinValue(Tail(nums))

RECURSIVE MaxValue(_)
MaxValue(nums) ==
  IF Len(nums) = 1 THEN nums[1]
  ELSE IF FractionLess(MaxValue(Tail(nums)), Head(nums)) THEN Head(nums)
  ELSE MaxValue(Tail(nums))

RECURSIVE NumericValues(_)
\* Object.values(aggregated).map(v => v.population).filter(Number.isFinite)
NumericValues(aggregated) ==
  IF aggregated = <<>> THEN <<>>
  ELSE (IF IsFiniteNumber(Head(aggregated).value.population)
        THEN <<Head(aggregated).value.population>>
        ELSE <<>>)
       \o NumericValues(Tail(aggregated))

\* value / max, the rescaling that forgets the offset of the minimum
RescaleValue_NoOffset(value, min, max) ==
  Fraction(value[1] * max[2], value[2] * max[1])

\* (value - min) / (max - min) for three finite numbers with min < max
RescaleValue(value, min, max) ==
  Fraction((value[1] * min[2] - min[1] * value[2]) * max[2],
           value[2] * (max[1] * min[2] - min[1] * max[2]))

\* (value - min) / (max - min), 0.5 when max = min
Rescale(aggregated, min, max) ==
  [i \in 1..Len(aggregated) |->
     [key |-> aggregated[i].key,
      value |->
        IF ~IsFiniteNumber(aggregated[i].value.population)
        THEN aggregated[i].value
        ELSE [population |->
                IF min = max THEN <<1, 2>>
                ELSE RescaleValue(aggregated[i].value.population, min, max)]]]

NormalizeValues(aggregated, nums) ==
  IF nums = <<>> THEN aggregated
  ELSE Rescale(aggregated, MinValue(nums), MaxValue(nums))

normalizeAggregatedData(aggregated) ==
  NormalizeValues(aggregated, NumericValues(aggregated))

\* the feature after { ...feature, properties: {...properties, ...extra} }
MergeExtra(feature, extra) ==
  IF extra.population = <<>> THEN feature
  ELSE [feature EXCEPT !.properties.population = extra.population]

\* an enrichment that keeps only the features a row group joins
JoinFeatures_Filter(geojson, finalAggregated) ==
  [geojson EXCEPT !.features =
     SelectSeq(geojson.features,
               LAMBDA feature : HasEntry(finalAggregated, feature.properties.code))]

\* geojson.features.map: the aggregated values are merged into the
\* properties of the features they join
JoinFeatures(geojson, finalAggregated) ==
  [geojson EXCEPT !.features =
     [i \in 1..Len(geojson.features) |->
        IF geojson.features[i].properties.code = "" THEN geojson.features[i]
        ELSE IF ~HasEntry(finalAggregated, geojson.features[i].properties.code)
        THEN geojson.features[i]
        ELSE MergeExtra(geojson.features[i],
                        GetEntry(finalAggregated,
                                 geojson.features[i].properties.code))]]

\* an enrichment that normalizes whatever the normalize option says
EnrichFeatures_AlwaysNormalize(geojson, normalize, aggregated) ==
  JoinFeatures(geojson, normalizeAggregatedData(aggregated))

EnrichFeatures(geojson, normalize, aggregated) ==
  IF normalize THEN JoinFeatures(geojson, normalizeAggregatedData(aggregated))
  ELSE JoinFeatures(geojson, aggregated)

\* data is the loaded value [kind |-> "array" | "other", rows |-> rows]
enrichGeoData(data, geojson, aggregation, normalize) ==
  IF data.kind # "array" \/ Len(data.rows) = 0 THEN geojson
  ELSE IF Len(geojson.features) = 0 THEN geojson
  ELSE EnrichFeatures(geojson, normalize,
                      MapAggregate(groupByJoinColumn(<<>>, data.rows), aggregation))

RECURSIVE createLookup(_)
\* createLookup(features, feature => feature.properties[geoJSONJoinColumn])
createLookup(features) ==
  IF features = <<>> THEN <<>>
  ELSE LET rest == createLookup(SubSeq(features, 1, Len(features) - 1))
           feature == features[Len(features)]
       IN IF feature.properties.code = "" THEN rest
          ELSE SetEntry(rest, feature.properties.code, feature)

\* ------------------------------------------------------------- projection
\* projection.toGeo(coord) for the projections a caller can configure:
\* "wgs84" is WGS84Projection (identity), "custom" a caller-supplied
\* affine transform, "throws" a caller-supplied transform that throws
toGeo(projection, coord) ==
  IF projection = "custom" THEN <<coord[1] + 1000, coord[2] - 1000>>
  ELSE coord

ProjectGeometry(projection, geometry) ==
  [geometry EXCEPT !.polys =
     [p \in 1..Len(geometry.polys) |->
        [r \in 1..Len(geometry.polys[p]) |->
           [k \in 1..Len(geometry.polys[p][r]) |->
              toGeo(projection, geometry.polys[p][r][k])]]]]

RECURSIVE CountCoords(_)
\* number of coordinates turf.coordEach visits in a list of polygons
CountCoords(polys) ==
  IF polys = <<>> THEN 0
  ELSE LET polygon == Head(polys)
       IN (IF polygon = <<>> THEN 0
           ELSE Len(Head(polygon)) + CountCoords(<<Tail(polygon)>>))
          + CountCoords(Tail(polys))

\* toWGS84FeatureCollection throws when proj.toGeo throws on a coordinate
ProjectionThrows(fc, projection) ==
  /\ projection = "throws"
  /\ \E i \in 1..Len(fc.features) : CountCoords(fc.features[i].geometry.polys) > 0

toWGS84FeatureCollection(fc, projection) ==
  [fc EXCEPT !.features =
     [i \in 1..Len(fc.features) |->
        [fc.features[i] EXCEPT !.geometry = ProjectGeometry(projection, @)]]]

\* ----------------------------------------------------------- turf.centroid
RECURSIVE CentroidSum(_, _)
\* coordEach(geojson, cb, excludeWrapCoord = true): every ring without its
\* last coordinate; the sum along one axis (axis 3 counts the coordinates)
CentroidSum(polys, axis) ==
  IF polys = <<>> THEN 0
  ELSE LET polygon == Head(polys)
       IN (IF polygon = <<>> THEN 0
           ELSE LET ring == Head(polygon)
                    open == IF Len(ring) = 0 THEN ring
                            ELSE SubSeq(ring, 1, Len(ring) - 1)
                IN (IF axis = 3 THEN Len(open) ELSE SumCoord(open, axis))
                   + CentroidSum(<<Tail(polygon)>>, axis))
          + CentroidSum(Tail(polys), axis)

\* [xSum / len, ySum / len] as <<xSum, ySum, len>>; len = 0 is [NaN, NaN]
turfCentroid(geometry) ==
  <<CentroidSum(geometry.polys, 1), CentroidSum(geometry.polys, 2),
    CentroidSum(geometry.polys, 3)>>

\* turf.centroid builds point([NaN, NaN]) for a geometry without
\* coordinates; helpers.point rejects it in the turf releases that
\* validate coordinates (strict) and returns it in the others
CentroidThrows(strict, feature) ==
  strict /\ turfCentroid(feature.geometry)[3] = 0

withCentroid(feature) ==
  [type |-> feature.type, properties |-> feature.properties,
   geometry |-> feature.geometry, centroid |-> turfCentroid(feature.geometry)]

\* ------------------------------------------------- grid cartogram builder
\* A raw field value of a record: a number or numeric string, undefined
\* (a missing field), null, the empty string, or a non-numeric string.
NumberField(n) == [kind |-> "number", n |-> n]

MissingField == [kind |-> "missing", n |-> 0]

NullField == [kind |-> "null", n |-> 0]

EmptyField == [kind |-> "empty", n |-> 0]

TextField == [kind |-> "text", n |-> 0]

\* Number(raw): Number(null) and Number("") are 0, Number(undefined) and
\* Number("n/a") are NaN
ToNumber(raw) ==
  IF raw.kind = "number" THEN [finite |-> TRUE, n |-> raw.n]
  ELSE IF raw.kind \in {"null", "empty"} THEN [finite |-> TRUE, n |-> 0]
  ELSE [finite |-> FALSE, n |-> 0]

\* an element of a record list: an object with the fields id, row, col
\* (id "" stands for a missing, null or empty identifier), or a value that
\* is not an object
GridRecord(id, row, col) == [object |-> TRUE, id |-> id, row |-> row, col |-> col]

NonObject == [object |-> FALSE, id |-> "", row |-> MissingField, col |-> MissingField]

\* cellPadding in hundredths; clamp01 maps a non-finite value to 0
clamp01(value) ==
  IF value = NonNumeric THEN 0
  ELSE IF value < 0 THEN 0
  ELSE IF value > 49 THEN 49
  ELSE value

\* cartogramGridOptions: extent is <<>> (not given) or four values, each
\* an integer or NonNumeric (Number(value) is not finite)
DefaultGridOptions ==
  [extent |-> <<>>, cellPadding |-> 8, rowOrientation |-> "top",
   colOrientation |-> "left"]

normalizeOptions(overrides) ==
  [extent |-> overrides.extent,
   cellPadding |-> clamp01(overrides.cellPadding),
   rowOrientation |-> IF overrides.rowOrientation \in {"top", "bottom"}
                      THEN overrides.rowOrientation ELSE "top",
   colOrientation |-> IF overrides.colOrientation \in {"left", "right"}
                      THEN overrides.colOrientation ELSE "left"]

\* the coordinates turf.bbox visits
CoordSet(fc) ==
  UNION {UNION {UNION {{fc.features[i].geometry.polys[p][r][k] :
                          k \in 1..Len(fc.features[i].geometry.polys[p][r])} :
                       r \in 1..Len(fc.features[i].geometry.polys[p])} :
                p \in 1..Len(fc.features[i].geometry.polys)} :
         i \in 1..Len(fc.features)}

SetMin(values) == CHOOSE v \in values : \A w \in values : v <= w

SetMax(values) == CHOOSE v \in values : \A w \in values : v >= w

\* turf.bbox of a set of coordinates that is not empty
BBoxOf(coords) ==
  <<SetMin({c[1] : c \in coords}), SetMin({c[2] : c \in coords}),
    SetMax({c[1] : c \in coords}), SetMax({c[2] : c \in coords})>>

\* the fallback of ensureExtent: regular is <<>> (no regular geography) or
\* <<fc>>; the bounding box of a geography without coordinates is infinite
ExtentOfRegular(regular) ==
  IF regular = <<>> THEN [status |-> "throw", box |-> <<0, 0, 0, 0>>]
  ELSE IF CoordSet(regular[1]) = {} THEN [status |-> "throw", box |-> <<0, 0, 0, 0>>]
  ELSE [status |-> "ok", box |-> BBoxOf(CoordSet(regular[1]))]

ensureExtent(extent, regular) ==
  IF Len(extent) = 4 /\ \A i \in 1..4 : extent[i] # NonNumeric
  THEN [status |-> "ok", box |-> extent]
  ELSE ExtentOfRegular(regular)

\* the record at which records.map throws, 0 when none does
RecordThrows(record) ==
  \/ record.id = ""
  \/ ~ToNumber(record.row).finite
  \/ ~ToNumber(record.col).finite

normalizeRecords(records) ==
  IF Len(records) = 0 THEN [status |-> "throw", entries |-> <<>>]
  ELSE IF \E i \in 1..Len(records) : RecordThrows(records[i])
  THEN [status |-> "throw", entries |-> <<>>]
  ELSE [status |-> "ok",
        entries |-> [i \in 1..Len(records) |->
                       [id |-> records[i].id,
                        row |-> ToNumber(records[i].row).n,
                        col |-> ToNumber(records[i].col).n]]]

\* Row and column numbers are doubles.  The model keeps them as integers
\* of a narrow width: a magnitude up to MaxFinite is a finite number, a
\* larger one is an infinity.
MaxFinite == 100

Infinity == MaxFinite + 1

NumberIsFinite(n) == -MaxFinite <= n /\ n <= MaxFinite

\* a - b: the difference of two finite numbers overflows to an infinity
FloatSub(a, b) ==
  IF a - b > MaxFinite THEN Infinity
  ELSE IF a - b < -MaxFinite THEN -Infinity
  ELSE a - b

\* x + 1: an infinity stays what it is, the largest finite number absorbs
\* the 1
FloatAddOne(x) == IF x >= MaxFinite \/ x <= -MaxFinite THEN x ELSE x + 1

\* max - min + 1 of the values along one axis
AxisCount(values) == FloatAddOne(FloatSub(SetMax(values), SetMin(values)))

\* the guard of deriveGridMetrics
InvalidRange(rowCount, colCount) ==
  \/ ~NumberIsFinite(rowCount)
  \/ rowCount <= 0
  \/ ~NumberIsFinite(colCount)
  \/ colCount <= 0

\* a guard that also rejects a single row or column
InvalidRange_Strict(rowCount, colCount) ==
  \/ ~NumberIsFinite(rowCount)
  \/ rowCount <= 1
  \/ ~NumberIsFinite(colCount)
  \/ colCount <= 1

deriveGridMetrics_StrictGuard(entries) ==
  [status |-> IF InvalidRange_Strict(
                   AxisCount({entries[i].row : i \in 1..Len(entries)}),
                   AxisCount({entries[i].col : i \in 1..Len(entries)}))
              THEN "throw" ELSE "ok",
   minRow |-> SetMin({entries[i].row : i \in 1..Len(entries)}),
   minCol |-> SetMin({entries[i].col : i \in 1..Len(entries)}),
   rowCount |-> AxisCount({entries[i].row : i \in 1..Len(entries)}),
   colCount |-> AxisCount({entries[i].col : i \in 1..Len(entries)})]

\* status "throw" stands for the "Invalid row/column range" error
deriveGridMetrics(entries) ==
  [status |-> IF InvalidRange(
                   AxisCount({entries[i].row : i \in 1..Len(entries)}),
                   AxisCount({entries[i].col : i \in 1..Len(entries)}))
              THEN "throw" ELSE "ok",
   minRow |-> SetMin({entries[i].row : i \in 1..Len(entries)}),
   minCol |-> SetMin({entries[i].col : i \in 1..Len(entries)}),
   rowCount |-> AxisCount({entries[i].row : i \in 1..Len(entries)}),
   colCount |-> AxisCount({entries[i].col : i \in 1..Len(entries)})]

\* a cell that is wider than its share of the extent: inner = cellSize + pad
CellAxis_Overhang(low, high, count, index, padding, forward) ==
  IF forward
  THEN <<Fraction(low * 200 * count + index * 200 * (high - low)
                    + (high - low) * padding, 200 * count),
         Fraction(low * 200 * count + index * 200 * (high - low)
                    + (high - low) * padding
                    + 200 * (high - low) + 2 * (high - low) * padding, 200 * count)>>
  ELSE <<Fraction(high * 200 * count - index * 200 * (high - low)
                    - (high - low) * padding
                    - (200 * (high - low) + 2 * (high - low) * padding), 200 * count),
         Fraction(high * 200 * count - index * 200 * (high - low)
                    - (high - low) * padding, 200 * count)>>

\* One axis of computeCellBounds, in exact arithmetic.  With size the
\* extent's dimension, count the number of cells and padding in hundredths:
\* cellSize = size / count, pad = cellSize * padding / 100, inner =
\* cellSize - pad.  forward lays index 0 at low (left, bottom), else at
\* high (right, top).  The result is <<c0, c1>>, each a fraction over
\* 200 * count.
CellAxis(low, high, count, index, padding, forward) ==
  IF forward
  THEN <<Fraction(low * 200 * count + index * 200 * (high - low)
                    + (high - low) * padding, 200 * count),
         Fraction(low * 200 * count + index * 200 * (high - low)
                    + (high - low) * padding
                    + 200 * (high - low) - 2 * (high - low) * padding, 200 * count)>>
  ELSE <<Fraction(high * 200 * count - index * 200 * (high - low)
                    - (high - low) * padding
                    - (200 * (high - low) - 2 * (high - low) * padding), 200 * count),
         Fraction(high * 200 * count - index * 200 * (high - low)
                    - (high - low) * padding, 200 * count)>>

\* the bounds of a cell from its two axes: x is <<x0, x1>>, y is <<y0, y1>>
CellBounds(x, y) == [x0 |-> x[1], x1 |-> x[2], y0 |-> y[1], y1 |-> y[2]]

\* computeCellBounds with the indices counted from 0 instead of the
\* smallest observed index
computeCellBounds_FromZero(entry, metrics, extent, options) ==
  CellBounds(CellAxis(extent[1], extent[3], metrics.colCount,
                      entry.col, options.cellPadding,
                      options.colOrientation = "left"),
             CellAxis(extent[2], extent[4], metrics.rowCount,
                      entry.row, options.cellPadding,
                      options.rowOrientation # "top"))

computeCellBounds(entry, metrics, extent, options) ==
  CellBounds(CellAxis(extent[1], extent[3], metrics.colCount,
                      entry.col - metrics.minCol, options.cellPadding,
                      options.colOrientation = "left"),
             CellAxis(extent[2], extent[4], metrics.rowCount,
                      entry.row - metrics.minRow, options.cellPadding,
                      options.rowOrientation # "top"))

\* the square feature of a record; a coordinate is a pair of fractions
createSquareFeature(entry, bounds) ==
  [type |-> "Feature",
   properties |-> [code |-> entry.id, grid_row |-> entry.row, grid_col |-> entry.col],
   geometry |->
     [type |-> "Polygon",
      polys |-> << << << <<bounds.x0, bounds.y0>>, <<bounds.x1, bounds.y0>>,
                        <<bounds.x1, bounds.y1>>, <<bounds.x0, bounds.y1>>,
                        <<bounds.x0, bounds.y0>> >> >> >>]]

\* the value thrown instead of a result
NoOutput == [type |-> "FeatureCollection", features |-> <<>>]

GridThrows == [status |-> "throw", fc |-> NoOutput, alias |-> FALSE]

\* entries.map(...) wrapped in a FeatureCollection
GridFeatures(entries, metrics, extent, options) ==
  [status |-> "ok",
   fc |-> [type |-> "FeatureCollection",
           features |-> [i \in 1..Len(entries) |->
                           createSquareFeature(
                             entries[i],
                             computeCellBounds(entries[i], metrics, extent, options))]],
   alias |-> FALSE]

\* the features once the metrics are derived; deriveGridMetrics may throw
GridOfMetrics(entries, metrics, extent, options) ==
  IF metrics.status = "throw" THEN GridThrows
  ELSE GridFeatures(entries, metrics, extent, options)

\* createGridCartogramFeatureCollection after its options, its extent and
\* its entries are known
GridOfEntries(normalized, extent, options) ==
  IF extent.status = "throw" THEN GridThrows
  ELSE IF normalized.status = "throw" THEN GridThrows
  ELSE GridOfMetrics(normalized.entries, deriveGridMetrics(normalized.entries),
                     extent.box, options)

GridWithOptions(records, regular, options) ==
  GridOfEntries(normalizeRecords(records), ensureExtent(options.extent, regular),
                options)

createGridCartogramFeatureCollection(records, regular, gridOptions) ==
  GridWithOptions(records, regular, normalizeOptions(gridOptions))

\* ------------------------------------------------ normalizeCartogramInput
\* The cartogram input is [kind, fc, records].  kind "null" is a missing
\* input (null, undefined, ""), "geojson" an object with a recognized
\* `type` (fc is the object), "rows" an array (records are its elements),
\* "text" a string (records are what parseCSV returns for it), "wrapper"
\* an object with a `records` array, "object" any other object and
\* "scalar" any other value.  The result is [status, fc, alias]: status
\* "throw" when the input is rejected, alias TRUE when the returned object
\* is the input object itself.
\* a normalizer that hands a GeoJSON input back without copying it
normalizeCartogramInput_NoCopy(input, regular, gridOptions) ==
  IF input.kind = "null" THEN GridThrows
  ELSE IF input.kind = "geojson"
  THEN [status |-> "ok", fc |-> input.fc, alias |-> TRUE]
  ELSE IF input.kind = "rows"
  THEN IF Len(input.records) = 0 THEN GridThrows
       ELSE IF ~input.records[1].object THEN GridThrows
       ELSE createGridCartogramFeatureCollection(input.records, regular, gridOptions)
  ELSE IF input.kind = "text"
  THEN IF Len(input.records) = 0 THEN GridThrows
       ELSE createGridCartogramFeatureCollection(input.records, regular, gridOptions)
  ELSE IF input.kind = "wrapper"
  THEN createGridCartogramFeatureCollection(input.records, regular, gridOptions)
  ELSE GridThrows

normalizeCartogramInput(input, regular, gridOptions) ==
  IF input.kind = "null" THEN GridThrows
  ELSE IF input.kind = "geojson"
  THEN [status |-> "ok", fc |-> input.fc, alias |-> FALSE]
  ELSE IF input.kind = "rows"
  THEN IF Len(input.records) = 0 THEN GridThrows
       ELSE IF ~input.records[1].object THEN GridThrows
       ELSE createGridCartogramFeatureCollection(input.records, regular, gridOptions)
  ELSE IF input.kind = "text"
  THEN IF Len(input.records) = 0 THEN GridThrows
       ELSE createGridCartogramFeatureCollection(input.records, regular, gridOptions)
  ELSE IF input.kind = "wrapper"
  THEN createGridCartogramFeatureCollection(input.records, regular, gridOptions)
  ELSE GridThrows

\* ensureCartogramGeoJSON: cached is <<>> (null) or <<fc>>; config holds
\* the fields of the instance
ensureCartogramGeoJSON(cached, config) ==
  IF cached # <<>> THEN [status |-> "ok", fc |-> cached[1], alias |-> FALSE]
  ELSE normalizeCartogramInput(config.cartogramGeoJSON, <<config.regularGeoJSON>>,
                               config.cartogramGridOptions)

\* ---------------------------------------------------------------- prepare
NoGeometry == [type |-> "None", polys |-> <<>>]

InitialState ==
  [prepared |-> FALSE,
   regularEnriched |-> <<>>, cartogramEnriched |-> <<>>,
   regularWGS84 |-> <<>>, cartogramWGS84 |-> <<>>,
   geographyLookup |-> <<>>, cartogramLookup |-> <<>>,
   keyData |-> <<>>, interpolators |-> <<>>]

\* Number(value ?? 0) of a property value: an absent value is 0, an array
\* of one number is that number, any other array is NaN
NumberOf(value) ==
  IF value = <<>> THEN <<0, 1>>
  ELSE IF Len(value) = 2 THEN value
  ELSE IF Len(value) = 3 /\ value[3] # NonNumeric THEN <<value[3], 1>>
  ELSE NaNValue

RECURSIVE keyByCode(_)
\* keyBy(features.map(f => ({code, population, data: f})), "code")
keyByCode(features) ==
  IF features = <<>> THEN <<>>
  ELSE LET rest == keyByCode(SubSeq(features, 1, Len(features) - 1))
           feature == features[Len(features)]
           code == feature.properties.code
       IN SetEntry(rest, IF code = "" THEN "undefined" ELSE code,
                   [code |-> code,
                    population |-> NumberOf(feature.properties.population),
                    data |-> feature])

RECURSIVE BuildInterpolators(_, _)
\* the loop over Object.entries(geographyLookup); each element is
\* [key, value] with value the result of createGeometryInterpolator
BuildInterpolators(geographyEntries, cartogramLookup) ==
  IF geographyEntries = <<>> THEN <<>>
  ELSE LET code == Head(geographyEntries).key
           feature == Head(geographyEntries).value
           toGeometry == IF HasEntry(cartogramLookup, code)
                         THEN GetEntry(cartogramLookup, code).geometry
                         ELSE NoGeometry
       IN <<[key |-> code,
             value |-> createGeometryInterpolator(feature.geometry, toGeometry)]>>
          \o BuildInterpolators(Tail(geographyEntries), cartogramLookup)

MapCentroidFeatures(fc) ==
  [fc EXCEPT !.features = [i \in 1..Len(fc.features) |-> withCentroid(fc.features[i])]]

MapCentroidEntries(lookup) ==
  [i \in 1..Len(lookup) |->
     [key |-> lookup[i].key, value |-> withCentroid(lookup[i].value)]]

\* prepare() throws after ensureCartogramGeoJSON has stored baseFc
PrepareFailed(baseFc) ==
  [status |-> "throw", cached |-> <<baseFc>>, state |-> InitialState]

\* the interpolator loop and the assignment of this.state; enriched, wgs84
\* and lookups hold the regular and the cartogram value of each step
PrepareState(strict, baseFc, enriched, wgs84, lookups, built) ==
  IF \E i \in 1..Len(built) : built[i].value.status = "throw"
  THEN PrepareFailed(baseFc)
  ELSE IF \/ \E i \in 1..Len(wgs84.regular.features) :
               CentroidThrows(strict, wgs84.regular.features[i])
          \/ \E i \in 1..Len(wgs84.cartogram.features) :
               CentroidThrows(strict, wgs84.cartogram.features[i])
  THEN PrepareFailed(baseFc)
  ELSE [status |-> "ok",
        cached |-> <<baseFc>>,
        state |->
          [prepared |-> TRUE,
           regularEnriched |-> <<enriched.regular>>,
           cartogramEnriched |-> <<enriched.cartogram>>,
           regularWGS84 |-> <<MapCentroidFeatures(wgs84.regular)>>,
           cartogramWGS84 |-> <<MapCentroidFeatures(wgs84.cartogram)>>,
           geographyLookup |-> MapCentroidEntries(lookups.regular),
           cartogramLookup |-> MapCentroidEntries(lookups.cartogram),
           keyData |-> keyByCode(enriched.regular.features),
           interpolators |-> SelectSeq(built, LAMBDA e : e.value.status = "ok")]]

\* the interpolator loop over the two lookups
PrepareLookups(strict, baseFc, enriched, wgs84, lookups) ==
  PrepareState(strict, baseFc, enriched, wgs84, lookups,
               BuildInterpolators(lookups.regular, lookups.cartogram))

\* the two createLookup calls
PrepareProjected(strict, baseFc, enriched, wgs84) ==
  PrepareLookups(strict, baseFc, enriched, wgs84,
                 [regular |-> createLookup(wgs84.regular.features),
                  cartogram |-> createLookup(wgs84.cartogram.features)])

\* the two toWGS84FeatureCollection calls
PrepareEnriched(cfg, strict, baseFc, enriched) ==
  IF ProjectionThrows(enriched.regular, cfg.projection)
     \/ ProjectionThrows(enriched.cartogram, cfg.projection)
  THEN PrepareFailed(baseFc)
  ELSE PrepareProjected(
         strict, baseFc, enriched,
         [regular |-> toWGS84FeatureCollection(enriched.regular, cfg.projection),
          cartogram |-> toWGS84FeatureCollection(enriched.cartogram, cfg.projection)])

\* the two enrichGeoData calls; base is the result of ensureCartogramGeoJSON
PrepareWithBase(modelData, cfg, cached, strict, base) ==
  IF base.status = "throw"
  THEN [status |-> "throw", cached |-> cached, state |-> InitialState]
  ELSE PrepareEnriched(
         cfg, strict, base.fc,
         [regular |-> enrichGeoData(modelData, cfg.regularGeoJSON,
                                    cfg.aggregation, cfg.normalize),
          cartogram |-> enrichGeoData(modelData, base.fc,
                                      cfg.aggregation, cfg.normalize)])

\* The synchronous part of prepare() after `await this.loadData()`.
\* cfg is the instance's configuration fields, cached the memoized
\* _normalizedCartogramGeoJSON.  The result is the outcome ("ok" or
\* "throw"), the value of _normalizedCartogramGeoJSON afterwards and, for
\* "ok", the object assigned to this.state.
PrepareBody(modelData, cfg, cached, strict) ==
  PrepareWithBase(modelData, cfg, cached, strict,
                  ensureCartogramGeoJSON(cached, cfg))

\* -------------------------------------------------------------- accessors
\* An accessor result is [status, value]: status "ok" with value <<v>>,
\* "notPrepared" for the error thrown by assertPrepared, "threw" for an
\* exception escaping from turf.centroid.
NotPrepared == [status |-> "notPrepared", value |-> <<>>]

Threw == [status |-> "threw", value |-> <<>>]

Ok(v) == [status |-> "ok", value |-> <<v>>]

isPrepared(st) == st.prepared

\* a loop that pushes the feature of every region twice
InterpolatedFeature_Twice(code, baseFeature, type, coordinates, factor) ==
  IF coordinates.length = 0 THEN <<>>
  ELSE [i \in 1..2 |->
          [type |-> "Feature",
           properties |->
             [code |-> code,
              population |-> baseFeature.properties.population,
              tags |-> baseFeature.properties.tags,
              morph_factor |-> factor],
           geometry |-> [type |-> type, polys |-> coordinates.polys]]]

\* one iteration of the loop of getInterpolatedFeatureCollection: the
\* feature pushed for a region, <<>> when the region is skipped
InterpolatedFeature(code, baseFeature, type, coordinates, factor) ==
  IF coordinates.length = 0 THEN <<>>
  ELSE <<[type |-> "Feature",
          properties |->
            [code |-> code,
             population |-> baseFeature.properties.population,
             tags |-> baseFeature.properties.tags,
             morph_factor |-> factor],
          geometry |-> [type |-> type, polys |-> coordinates.polys]]>>

RECURSIVE InterpolatedFeatures(_, _, _)
\* the loop of getInterpolatedFeatureCollection over the interpolators
InterpolatedFeatures(entries, st, factor) ==
  IF entries = <<>> THEN <<>>
  ELSE IF ~HasEntry(st.geographyLookup, Head(entries).key)
  THEN InterpolatedFeatures(Tail(entries), st, factor)
  ELSE InterpolatedFeature(Head(entries).key,
                           GetEntry(st.geographyLookup, Head(entries).key),
                           Head(entries).value.type,
                           GeometryInterpolate(Head(entries).value, factor),
                           factor)
       \o InterpolatedFeatures(Tail(entries), st, factor)

\* turf.featureCollection(features.map(withCentroid))
CollectionWithCentroids(features, strict) ==
  IF \E i \in 1..Len(features) : CentroidThrows(strict, features[i])
  THEN Threw
  ELSE Ok([type |-> "FeatureCollection",
           features |-> [i \in 1..Len(features) |-> withCentroid(features[i])]])

getInterpolatedFeatureCollection(st, factor, strict) ==
  IF ~isPrepared(st) THEN NotPrepared
  ELSE CollectionWithCentroids(InterpolatedFeatures(st.interpolators, st, factor),
                               strict)

\* createLookup over the features of the collection an accessor returned
LookupOfCollection(collection) ==
  IF collection.status # "ok" THEN collection
  ELSE Ok(createLookup(collection.value[1].features))

getInterpolatedLookup(st, factor, strict) ==
  LookupOfCollection(getInterpolatedFeatureCollection(st, factor, strict))

\* getKeyData without the assertPrepared() guard
getKeyData_NoAssert(st) == Ok(st.keyData)

getKeyData(st) == IF ~isPrepared(st) THEN NotPrepared ELSE Ok(st.keyData)

getRegularFeatureCollection(st) ==
  IF ~isPrepared(st) THEN NotPrepared ELSE Ok(st.regularWGS84[1])

getCartogramFeatureCollection(st) ==
  IF ~isPrepared(st) THEN NotPrepared ELSE Ok(st.cartogramWGS84[1])

getGeographyLookup(st) ==
  IF ~isPrepared(st) THEN NotPrepared ELSE Ok(st.geographyLookup)

getCartogramLookup(st) ==
  IF ~isPrepared(st) THEN NotPrepared ELSE Ok(st.cartogramLookup)

Accessors ==
  {"getKeyData", "getRegularFeatureCollection", "getCartogramFeatureCollection",
   "getGeographyLookup", "getCartogramLookup",
   "getInterpolatedFeatureCollection", "getInterpolatedLookup"}

TakesFactor(acc) ==
  acc \in {"getInterpolatedFeatureCollection", "getInterpolatedLookup"}

\* the value an accessor call returns on engine state st
AccessorResult(acc, factor, st, strict) ==
  CASE acc = "getKeyData" -> getKeyData(st)
    [] acc = "getRegularFeatureCollection" -> getRegularFeatureCollection(st)
    [] acc = "getCartogramFeatureCollection" -> getCartogramFeatureCollection(st)
    [] acc = "getGeographyLookup" -> getGeographyLookup(st)
    [] acc = "getCartogramLookup" -> getCartogramLookup(st)
    [] acc = "getInterpolatedFeatureCollection" ->
         getInterpolatedFeatureCollection(st, factor, strict)
    [] OTHER -> getInterpolatedLookup(st, factor, strict)

\* ------------------------------------------------------------------ inputs
Square(x, y, size) ==
  << <<x, y>>, <<x + size, y>>, <<x + size, y + size>>, <<x, y + size>>, <<x, y>> >>

PolygonOf(ring) == [type |-> "Polygon", polys |-> << <<ring>> >>]

MultiPolygonOf(rings) ==
  [type |-> "MultiPolygon", polys |-> [i \in 1..Len(rings) |-> <<rings[i]>>]]

FeatureOf(code, geometry) ==
  [type |-> "Feature",
   properties |-> [code |-> code, population |-> <<>>, tags |-> <<"t">>],
   geometry |-> geometry]

CollectionOf(features) == [type |-> "FeatureCollection", features |-> features]

\* two square regions A and B
RegularSquares ==
  CollectionOf(<<FeatureOf("A", PolygonOf(Square(0, 0, 100))),
                 FeatureOf("B", PolygonOf(Square(300, 0, 100)))>>)

\* A with two parts, B with one, an unclosed triangle D, a feature without
\* join property
RegularMulti ==
  CollectionOf(<<FeatureOf("A", MultiPolygonOf(<<Square(0, 0, 100), Square(0, 200, 100)>>)),
                 FeatureOf("B", PolygonOf(Square(300, 0, 100))),
                 FeatureOf("D", PolygonOf(<< <<500, 0>>, <<600, 0>>, <<500, 100>> >>)),
                 FeatureOf("", PolygonOf(Square(700, 0, 100)))>>)

\* two features carry the join key A
RegularDuplicate ==
  CollectionOf(<<FeatureOf("A", PolygonOf(Square(0, 0, 100))),
                 FeatureOf("B", PolygonOf(Square(300, 0, 100))),
                 FeatureOf("A", PolygonOf(Square(0, 200, 100)))>>)

\* B is a Polygon whose outer ring has no coordinates
RegularEmptyRing ==
  CollectionOf(<<FeatureOf("A", PolygonOf(Square(0, 0, 100))),
                 FeatureOf("B", PolygonOf(<<>>))>>)

\* A is a square, E a ring of two vertices
RegularDegenerate ==
  CollectionOf(<<FeatureOf("A", PolygonOf(Square(0, 0, 100))),
                 FeatureOf("E", PolygonOf(<< <<800, 0>>, <<900, 0>> >>))>>)

FeatureWith(code, geometry, population) ==
  [type |-> "Feature",
   properties |-> [code |-> code, population |-> population, tags |-> <<"t">>],
   geometry |-> geometry]

\* B and Z carry a population property of their own; the last feature has
\* no join property
RegularEnrich ==
  CollectionOf(<<FeatureOf("A", PolygonOf(Square(0, 0, 100))),
                 FeatureWith("B", PolygonOf(Square(300, 0, 100)), <<5, 1>>),
                 FeatureWith("Z", PolygonOf(Square(600, 0, 100)), <<9, 1>>),
                 FeatureWith("", PolygonOf(Square(900, 0, 100)), <<3, 1>>)>>)

\* the values a caller assigns to morpher.regularGeoJSON
RegularInputs == {RegularEmptyRing}

GeoJSONInput(fc) == [kind |-> "geojson", fc |-> fc, records |-> <<>>]

\* both regions present
CartogramBoth ==
  GeoJSONInput(CollectionOf(<<FeatureOf("A", PolygonOf(Square(20, 20, 40))),
                              FeatureOf("B", PolygonOf(Square(320, 20, 60)))>>))

\* region B is absent from the cartogram
CartogramOnlyA ==
  GeoJSONInput(CollectionOf(<<FeatureOf("A", PolygonOf(Square(20, 20, 40)))>>))

\* A has one part (the regular A has two), B has two parts (the regular B
\* has one), D is a two-vertex ring, C exists only in the cartogram
CartogramMulti ==
  GeoJSONInput(CollectionOf(
    <<FeatureOf("A", MultiPolygonOf(<<Square(20, 220, 40)>>)),
      FeatureOf("B", MultiPolygonOf(<<Square(420, 20, 40), Square(320, 20, 40)>>)),
      FeatureOf("D", MultiPolygonOf(<< << <<500, 0>>, <<520, 0>> >> >>)),
      FeatureOf("C", PolygonOf(Square(900, 0, 100)))>>))

\* A is a square, E a ring of two vertices
CartogramDegenerate ==
  GeoJSONInput(CollectionOf(<<FeatureOf("A", PolygonOf(Square(20, 20, 40))),
                              FeatureOf("E", PolygonOf(<< <<820, 0>>, <<860, 0>> >>))>>))

\* the regions of RegularEnrich in another order
CartogramEnrich ==
  GeoJSONInput(CollectionOf(
    <<FeatureWith("B", PolygonOf(Square(320, 20, 60)), <<6, 1>>),
      FeatureOf("A", PolygonOf(Square(20, 20, 40))),
      FeatureWith("Z", PolygonOf(Square(620, 20, 40)), <<9, 1>>)>>))

\* morpher constructed without a cartogram (cartogramGeoJSON: null)
CartogramNull == [kind |-> "null", fc |-> CollectionOf(<<>>), records |-> <<>>]

\* the values a caller assigns to morpher.cartogramGeoJSON
CartogramInputs == {CartogramBoth, CartogramOnlyA}

Rows1 ==
  [kind |-> "array",
   rows |-> <<[lsoa |-> "A", population |-> <<1000>>],
              [lsoa |-> "A", population |-> <<600>>],
              [lsoa |-> "B", population |-> <<800>>]>>]

Rows2 ==
  [kind |-> "array",
   rows |-> <<[lsoa |-> "A", population |-> <<5>>],
              [lsoa |-> "", population |-> <<7>>],
              [lsoa |-> "B", population |-> <<>>]>>]

\* the example of the documentation with a region Z of value 0
Rows3 ==
  [kind |-> "array",
   rows |-> <<[lsoa |-> "Z", population |-> <<0>>],
              [lsoa |-> "A", population |-> <<1000>>],
              [lsoa |-> "A", population |-> <<600>>],
              [lsoa |-> "B", population |-> <<800>>]>>]

\* repeated and non-numeric values; every value of B is non-numeric
Rows4 ==
  [kind |-> "array",
   rows |-> <<[lsoa |-> "A", population |-> <<1000>>],
              [lsoa |-> "A", population |-> <<NonNumeric>>],
              [lsoa |-> "A", population |-> <<1000>>],
              [lsoa |-> "A", population |-> <<400>>],
              [lsoa |-> "B", population |-> <<NonNumeric>>]>>]

\* rows for a single join key
Rows5 == [kind |-> "array", rows |-> <<[lsoa |-> "A", population |-> <<700>>]>>]

\* the same value for every join key, and a key Q without feature
Rows6 ==
  [kind |-> "array",
   rows |-> <<[lsoa |-> "B", population |-> <<300>>],
              [lsoa |-> "A", population |-> <<300>>],
              [lsoa |-> "Q", population |-> <<300>>]>>]

\* `data` left at its default null
NullData == [kind |-> "null", rows |-> <<>>]

\* a loader result that is not an array (undefined, an object, ...)
OtherData == [kind |-> "other", rows |-> <<>>]

\* return [] of loadData
EmptyRows == [kind |-> "array", rows |-> <<>>]

\* the values a getData() promise can settle with; "reject" is a rejection
LoaderOutcomes == {"rows2", "other", "reject"}

LoaderValue(outcome) == IF outcome = "rows2" THEN Rows2 ELSE OtherData

\* the factor arguments explored: below 0, 0, epsilon, 0.5, 1 - epsilon,
\* 1, above 1 and non-finite
\* options.morphFactor of the wrapper: left out (0.5) or 1
WrapperFactors == {DefaultFactor, FactorOne}

Factors == {-500, 0, RING_VISIBILITY_EPSILON, DefaultFactor,
            FactorOne - RING_VISIBILITY_EPSILON, FactorOne, 1500, NaNFactor}

\* ------------------------------------------------- Leaflet morph layers
\* Numbers of the basemap effect are in thousandths (1.0 is Unit); lerp
\* multiplies a range width by a factor, so its results are in millionths.
Unit == 1000

Micro == Unit * Unit

\* a range option as the caller passes it: undefined/null, a two-element
\* array, an object {from, to}, a number, or anything else (a string)
MissingRange == [kind |-> "missing", from |-> 0, to |-> 0]

PairRange(from, to) == [kind |-> "pair", from |-> from, to |-> to]

ObjectRange(from, to) == [kind |-> "object", from |-> from, to |-> to]

NumberRange(to) == [kind |-> "number", from |-> 0, to |-> to]

TextRange == [kind |-> "text", from |-> 0, to |-> 0]

\* a null range: the effect leaves that property alone
NoRange == <<>>

normalizeRange(range, fallback) ==
  IF range.kind = "missing" THEN fallback
  ELSE IF range.kind \in {"pair", "object"} THEN <<range.from, range.to>>
  ELSE IF range.kind = "number"
  THEN <<IF fallback = NoRange THEN 0 ELSE fallback[1], range.to>>
  ELSE fallback

\* start + (end - start) * amount, in millionths
lerp(start, end, amount) == start * Unit + (end - start) * amount

clamp(value, min, max) ==
  IF value < min THEN min ELSE IF value > max THEN max ELSE value

Abs(value) == IF value < 0 THEN 0 - value ELSE value

\* value.toFixed(digits): the nearest multiple of 10^-digits (the larger
\* one on a tie), as a count of such multiples
toFixed(value, digits) ==
  IF digits = 2 THEN (value + 5 * Unit) \div (10 * Unit)
  ELSE (2 * value + Unit) \div (2 * Unit)

\* the inline style of the basemap element: filter is the list of filter
\* functions of the string ("" is <<>>), opacity is <<>> for "", <<n>> for
\* the three-decimal string of n thousandths, <<n, 0>> for the same number
\* written by the page in another form ("0.5")
Style(filter, opacity) == [filter |-> filter, opacity |-> opacity]

FilterPart(fn, amount) == [fn |-> fn, amount |-> amount]

\* the effectOptions closure: the ranges the effect works with
effectOptions(options) ==
  [blurRange |-> normalizeRange(options.blurRange, <<0, 8 * Unit>>),
   opacityRange |-> normalizeRange(options.opacityRange, <<Unit, 200>>),
   grayscaleRange |-> normalizeRange(options.grayscaleRange, NoRange),
   brightnessRange |-> normalizeRange(options.brightnessRange, NoRange)]

\* isEnabled(): the caller's function when one is given, else always true
isEnabled(lay) == IF lay.options.hasIsEnabled THEN lay.effectEnabled ELSE TRUE

BlurFilter(range, factor) ==
  IF range = NoRange \/ Abs(lerp(range[1], range[2], factor)) <= 10 * Unit
  THEN <<>>
  ELSE <<FilterPart("blur", toFixed(lerp(range[1], range[2], factor), 2))>>

Grayscale(range, factor) == clamp(lerp(range[1], range[2], factor), 0, Micro)

GrayscaleFilter(range, factor) ==
  IF range = NoRange THEN <<>>
  ELSE IF \/ Abs(Grayscale(range, factor) - Micro) > 10 * Unit
          \/ Abs(Grayscale(range, factor)) > 10 * Unit
  THEN <<FilterPart("grayscale", toFixed(Grayscale(range, factor), 2))>>
  ELSE <<>>

Brightness(range, factor) == clamp(lerp(range[1], range[2], factor), 0, 10 * Micro)

BrightnessFilter(range, factor) ==
  IF range = NoRange \/ Abs(Brightness(range, factor) - Micro) <= 10 * Unit
  THEN <<>>
  ELSE <<FilterPart("brightness", toFixed(Brightness(range, factor), 2))>>

EffectFilters(effect, factor) ==
  BlurFilter(effect.blurRange, factor)
    \o GrayscaleFilter(effect.grayscaleRange, factor)
    \o BrightnessFilter(effect.brightnessRange, factor)

NextOpacity(range, factor) == clamp(lerp(range[1], range[2], factor), 0, Micro)

\* the style the enabled effect gives the element at a factor
EffectStyle(effect, original, current, factor) ==
  Style(IF Len(EffectFilters(effect, factor)) > 0
        THEN EffectFilters(effect, factor)
        ELSE original.filter,
        IF effect.opacityRange = NoRange THEN current.opacity
        ELSE IF /\ Abs(NextOpacity(effect.opacityRange, factor) - Micro) < 10 * Unit
                /\ original.opacity = <<>>
        THEN <<>>
        ELSE <<toFixed(NextOpacity(effect.opacityRange, factor), 3)>>)

\* getOriginalStyles(element): the styles are read from the element the
\* first time only
getOriginalStyles(lay) ==
  IF ~lay.captured
  THEN [lay EXCEPT !.originalStyles = lay.element, !.captured = TRUE]
  ELSE lay

\* the assignments of applyBasemapEffect once the original styles are known
ApplyStyles(lay, factor) ==
  IF ~isEnabled(lay) THEN [lay EXCEPT !.element = lay.originalStyles]
  ELSE [lay EXCEPT !.element = EffectStyle(effectOptions(lay.options),
                                           lay.originalStyles, lay.element,
                                           factor)]

applyBasemapEffect(lay, factor) ==
  IF ~lay.options.hasEffect THEN lay
  ELSE ApplyStyles(getOriginalStyles(lay), factor)

\* the three accessor calls of createLeafletMorphLayers after prepare()
LayerCollections(st, morphFactor, strict) ==
  <<getRegularFeatureCollection(st), getCartogramFeatureCollection(st),
    getInterpolatedFeatureCollection(st, morphFactor, strict)>>

\* createLeafletMorphLayers from the construction of the layers on: it
\* rejects when an accessor throws, else builds the layers and applies the
\* effect for the initial factor
BuildLayers(lay, st, morphFactor, strict) ==
  IF \E i \in 1..3 : LayerCollections(st, morphFactor, strict)[i].status # "ok"
  THEN [lay EXCEPT !.pc = "rejected"]
  ELSE applyBasemapEffect(
         [lay EXCEPT
            !.pc = "ready",
            !.tween = LayerCollections(st, morphFactor, strict)[3].value[1].features,
            !.requested = morphFactor,
            !.enabledThen = isEnabled(lay),
            !.outcome = "returned"],
         morphFactor)

\* updateMorphFactor(nextFactor): nothing is touched when the accessor
\* throws, else the tween layer is refilled and the effect applied
updateMorphFactor(lay, st, nextFactor, strict) ==
  IF getInterpolatedFeatureCollection(st, nextFactor, strict).status # "ok"
  THEN [lay EXCEPT !.requested = nextFactor, !.enabledThen = isEnabled(lay),
                   !.outcome = "threw"]
  ELSE applyBasemapEffect(
         [lay EXCEPT
            !.tween = getInterpolatedFeatureCollection(st, nextFactor, strict)
                        .value[1].features,
            !.requested = nextFactor,
            !.enabledThen = isEnabled(lay),
            !.outcome = "returned"],
         nextFactor)

\* the basemapEffect options explored: [blurRange, opacityRange,
\* grayscaleRange, brightnessRange, isEnabled given, effect configured]
EffectOptionsOf(blur, opacity, grayscale, brightness, hasIsEnabled, hasEffect) ==
  [blurRange |-> blur, opacityRange |-> opacity, grayscaleRange |-> grayscale,
   brightnessRange |-> brightness, hasIsEnabled |-> hasIsEnabled,
   hasEffect |-> hasEffect]

NoEffect ==
  EffectOptionsOf(MissingRange, MissingRange, MissingRange, MissingRange,
                  FALSE, FALSE)

EffectOptionSets ==
  {NoEffect,
   EffectOptionsOf(PairRange(0, 5 * Unit), PairRange(Unit, 200), MissingRange,
                   MissingRange, TRUE, TRUE),
   EffectOptionsOf(MissingRange, TextRange, MissingRange, MissingRange,
                   FALSE, TRUE),
   EffectOptionsOf(NumberRange(4 * Unit), ObjectRange(500, Unit),
                   PairRange(0, Unit), NumberRange(500), TRUE, TRUE)}

PlainStyle == Style(<<>>, <<>>)

ElementStyles == {PlainStyle, Style(<<FilterPart("sepia", 100)>>, <<500, 0>>)}

\* the factors passed to the Leaflet helpers
LeafletFactors == {0, 400, 900, FactorOne, 1500}

\* -------------------------------------------------- Leaflet glyph layer
\* geom.coordinates[0] of a Polygon, geom.coordinates[0][0] of a
\* MultiPolygon, [] for any other geometry
extractRing(geom) ==
  IF geom.type \notin {"Polygon", "MultiPolygon"} THEN <<>>
  ELSE IF Len(geom.polys) = 0 THEN <<>>
  ELSE IF Len(geom.polys[1]) = 0 THEN <<>>
  ELSE geom.polys[1][1]

\* toLatLng(feature): <<>> for null, else [lat, lng] as the exact triple
\* <<latSum, lngSum, count>>; a centroid with count 0 is absent or NaN
toLatLng(feature) ==
  IF feature.centroid[3] > 0
  THEN <<feature.centroid[2], feature.centroid[1], feature.centroid[3]>>
  ELSE IF Len(extractRing(feature.geometry)) = 0 THEN <<>>
  ELSE <<SumCoord(extractRing(feature.geometry), 2),
         SumCoord(extractRing(feature.geometry), 1),
         Len(extractRing(feature.geometry))>>

DEFAULT_GEOMETRY == "interpolated"

\* what a geometry function of the caller returns: a collection of Point
\* features that carry no centroid, or null
PointFeature(code) ==
  [type |-> "Feature",
   properties |-> [code |-> code, population |-> <<>>, tags |-> <<"t">>],
   geometry |-> [type |-> "Point", polys |-> <<>>],
   centroid |-> <<0, 0, 0>>]

PointCollection ==
  [type |-> "FeatureCollection", features |-> <<PointFeature("A"), PointFeature("B")>>]

NullCollection == [type |-> "null", features |-> <<>>]

\* resolveCollection({morpher, geometry, morphFactor}): "points" and
\* "nothing" are functions of the caller, any other name is unsupported
resolveCollection(st, geometry, morphFactor, strict) ==
  CASE geometry = "regular" -> getRegularFeatureCollection(st)
    [] geometry = "cartogram" -> getCartogramFeatureCollection(st)
    [] geometry = "interpolated" ->
         getInterpolatedFeatureCollection(st, morphFactor, strict)
    [] geometry = "points" -> Ok(PointCollection)
    [] geometry = "nothing" -> Ok(NullCollection)
    [] OTHER -> Threw

RECURSIVE WithoutKey(_, _)
\* map.delete(key)
WithoutKey(entries, key) ==
  IF entries = <<>> THEN <<>>
  ELSE IF Head(entries).key = key THEN WithoutKey(Tail(entries), key)
  ELSE <<Head(entries)>> \o WithoutKey(Tail(entries), key)

Marker(latLng) == [latLng |-> latLng, icon |-> "divIcon"]

\* upsertMarker({feature, glyph, featureId}): nothing happens for a feature
\* without a position; an existing marker is moved, else a new one is added
\* to the layer group and to the map of markers
upsertMarker(gl, feature, featureId) ==
  IF toLatLng(feature) = <<>> THEN gl
  ELSE IF HasEntry(gl.markers, featureId)
  THEN [gl EXCEPT !.markers = SetEntry(@, featureId, Marker(toLatLng(feature)))]
  ELSE [gl EXCEPT !.markers = SetEntry(@, featureId, Marker(toLatLng(feature))),
                  !.group = @ \cup {featureId}]

removeMarker(gl, featureId) ==
  IF ~HasEntry(gl.markers, featureId) THEN gl
  ELSE [gl EXCEPT !.markers = WithoutKey(@, featureId),
                  !.group = @ \ {featureId}]

\* one iteration of the loop of updateGlyphs; outcome is what the callbacks
\* do for the feature: "filtered" (filterFeature is falsy), "blank"
\* (drawGlyph gives null or a value that is no glyph) or "draw"
GlyphStep(gl, feature, outcome) ==
  IF feature.properties.code = "" THEN gl
  ELSE IF outcome \in {"filtered", "blank"}
  THEN removeMarker(gl, feature.properties.code)
  ELSE [upsertMarker(gl, feature, feature.properties.code)
          EXCEPT !.nextIds = @ \cup {feature.properties.code}]

RECURSIVE GlyphLoop(_, _, _, _)
GlyphLoop(gl, features, outcomes, i) ==
  IF i > Len(features) THEN gl
  ELSE GlyphLoop(GlyphStep(gl, features[i], outcomes[i]), features, outcomes, i + 1)

RECURSIVE RemoveMarkers(_, _)
\* markers.forEach((_, id) => removeMarker(id)) over the ids of a set
RemoveMarkers(gl, ids) ==
  IF ids = {} THEN gl
  ELSE LET id == CHOOSE x \in ids : TRUE
       IN RemoveMarkers(removeMarker(gl, id), ids \ {id})

MarkerIds(gl) == {gl.markers[i].key : i \in 1..Len(gl.markers)}

UpdateResult(status, featureCount) ==
  [status |-> status, featureCount |-> featureCount]

\* the end of updateGlyphs: markers of ids that were not drawn are removed
SweepMarkers(gl) ==
  [RemoveMarkers(gl, MarkerIds(gl) \ gl.nextIds)
     EXCEPT !.last = UpdateResult("returned", Cardinality(gl.nextIds))]

\* updateGlyphs once currentGeometry and currentMorphFactor are set
RenderGlyphs(gl, collection, outcomes) ==
  IF collection.status # "ok" THEN [gl EXCEPT !.last = UpdateResult("threw", 0)]
  ELSE IF collection.value[1].type = "null"
  THEN [RemoveMarkers(gl, MarkerIds(gl))
          EXCEPT !.last = UpdateResult("returned", 0)]
  ELSE SweepMarkers(GlyphLoop([gl EXCEPT !.nextIds = {}],
                              collection.value[1].features, outcomes, 1))

\* an argument that is not given
Undefined == "undefined"

UndefinedFactor == 2 * NaNFactor

\* updateGlyphs({geometry, morphFactor}); outcomes[i] is what the callbacks
\* do for the i-th feature of the collection
updateGlyphs(gl, st, strict, nextGeometry, nextMorph, outcomes) ==
  RenderGlyphs(
    [gl EXCEPT
       !.currentGeometry = IF nextGeometry = Undefined THEN @ ELSE nextGeometry,
       !.currentMorphFactor = IF nextMorph = UndefinedFactor THEN @ ELSE nextMorph,
       !.cleared = FALSE],
    resolveCollection(
      st,
      IF nextGeometry = Undefined THEN gl.currentGeometry ELSE nextGeometry,
      IF nextMorph = UndefinedFactor THEN gl.currentMorphFactor ELSE nextMorph,
      strict),
    outcomes)

\* clear(): every marker is removed, then the layer group is emptied
clear(gl) ==
  [RemoveMarkers(gl, MarkerIds(gl)) EXCEPT !.group = {}, !.cleared = TRUE]

getState(gl) ==
  [geometry |-> gl.currentGeometry, morphFactor |-> gl.currentMorphFactor,
   markerCount |-> Len(gl.markers)]

\* createLeafletGlyphLayer after prepare(): getKeyData(), then the first
\* updateGlyphs({}); the promise rejects when either throws
BuildGlyphLayer(gl, st, strict, outcomes) ==
  IF getKeyData(st).status # "ok" THEN [gl EXCEPT !.pc = "rejected"]
  ELSE IF updateGlyphs(gl, st, strict, Undefined, UndefinedFactor, outcomes)
            .last.status # "returned"
  THEN [gl EXCEPT !.pc = "rejected"]
  ELSE [updateGlyphs(gl, st, strict, Undefined, UndefinedFactor, outcomes)
          EXCEPT !.pc = "ready"]

\* largest number of features of a collection explored
MaxFeatures == 4

AllDrawn == [i \in 1..MaxFeatures |-> "draw"]

\* what filterFeature and drawGlyph do in one call: every feature drawn, or
\* one of them filtered out or given no glyph
GlyphOutcomes ==
  {AllDrawn}
    \cup {[AllDrawn EXCEPT ![k] = outcome] :
            k \in {1, 3}, outcome \in {"filtered", "blank"}}

GlyphGeometries ==
  {"regular", "cartogram", "interpolated", "points", "nothing", "hexagons"}

GlyphFactors == {0, FactorOne}

\* ----------------------------------------------- MapLibre morph layers
\* A paint value is <<>> (undefined: the property is unset) or <<n>>, a
\* number in thousandths.
Unset == <<>>

Num(n) == <<n>>

IsFinite(value) == Len(value) = 1

\* the layers of the map's style and the paint properties looked at
MapLayers == {"raster", "labels"}

PaintProperties == {"opacity", "saturation"}

PaintKeys == MapLayers \X PaintProperties

\* clamp(value, min, max) of the MapLibre adapter: a value that is not a
\* finite number is returned as it is
clampValue(value, min, max) ==
  IF ~IsFinite(value) THEN value
  ELSE IF value[1] < min THEN Num(min)
  ELSE IF value[1] > max THEN Num(max)
  ELSE value

\* a property spec of the effect: [from, to], {from}, {to}, a number, a
\* function of the caller (its result is 1 - factor, or it throws), or
\* anything else
PairSpec(from, to) == [kind |-> "pair", from |-> from, to |-> to]

FromSpec(from) == [kind |-> "from", from |-> from, to |-> 0]

ToSpec(to) == [kind |-> "to", from |-> 0, to |-> to]

NumberSpec(to) == [kind |-> "number", from |-> 0, to |-> to]

FunctionSpec == [kind |-> "function", from |-> 0, to |-> 0]

ThrowingSpec == [kind |-> "throws", from |-> 0, to |-> 0]

TextSpec == [kind |-> "text", from |-> 0, to |-> 0]

\* normalizeRangeSpec(spec, original): << >> is null
normalizeRangeSpec(spec, original) ==
  CASE spec.kind = "pair" -> <<Num(spec.from), Num(spec.to)>>
    [] spec.kind = "from" -> <<Num(spec.from), original>>
    [] spec.kind = "to" -> <<original, Num(spec.to)>>
    [] spec.kind = "number" -> <<original, Num(spec.to)>>
    [] OTHER -> <<>>

\* interpolateRange({range, factor, original}); factor is in thousandths
interpolateRange(range, factor, original) ==
  IF ~IsFinite(range[1]) \/ ~IsFinite(range[2])
  THEN IF factor >= FactorOne THEN range[2] ELSE range[1]
  ELSE Num(range[1][1] + ((range[2][1] - range[1][1]) * factor) \div FactorOne)

\* captureOriginal({layerId, property}): the first call for a key reads the
\* paint property (undefined for a layer the map does not have) and keeps it
captureOriginal(mp, key) ==
  IF mp.originals[key].has THEN mp
  ELSE [mp EXCEPT !.originals[key] =
          [has |-> TRUE,
           value |-> IF key[1] \in MapLayers THEN mp.paint[key] ELSE Unset]]

\* setPaintProperty({layerId, property, value}): nothing for a layer the
\* map does not have
setPaintProperty(mp, key, value) ==
  IF key[1] \notin MapLayers THEN mp
  ELSE [mp EXCEPT !.paint[key] = value, !.modified = @ \cup {key}]

\* the value of computePropertyValue, original being the captured value
computePropertyValue(spec, easedFactor, original) ==
  IF spec.kind = "function" THEN Num(FactorOne - easedFactor)
  ELSE IF spec.kind = "throws" THEN original
  ELSE IF normalizeRangeSpec(spec, original) = <<>> THEN original
  ELSE interpolateRange(normalizeRangeSpec(spec, original), easedFactor, original)

\* applyClampAndTransform without a transform: the property's clamp range,
\* else the global one, applied to a finite value
applyClampAndTransform(effect, value) ==
  IF effect.clamp # <<>> /\ IsFinite(value)
  THEN clampValue(value, effect.clamp[1], effect.clamp[2])
  ELSE value

\* the body of the inner loop of apply for one (layer, property)
ApplyProperty(mp, key, spec, easedFactor, enabled) ==
  IF ~enabled
  THEN IF mp.effect.resetOnDisable /\ captureOriginal(mp, key).originals[key].value # Unset
       THEN setPaintProperty(captureOriginal(mp, key), key,
                             captureOriginal(mp, key).originals[key].value)
       ELSE captureOriginal(mp, key)
  ELSE IF applyClampAndTransform(
            mp.effect,
            computePropertyValue(spec, easedFactor,
                                 captureOriginal(mp, key).originals[key].value)) = Unset
  THEN captureOriginal(mp, key)
  ELSE setPaintProperty(
         captureOriginal(mp, key), key,
         applyClampAndTransform(
           mp.effect,
           computePropertyValue(spec, easedFactor,
                                captureOriginal(mp, key).originals[key].value)))

\* {...baseProperties, ...perLayerProperties[layerId]}
MergedProperties(effect, layerId) ==
  IF HasEntry(effect.layerProperties, layerId)
  THEN effect.properties \o
       SelectSeq(GetEntry(effect.layerProperties, layerId),
                 LAMBDA e : ~HasEntry(effect.properties, e.key))
  ELSE effect.properties

\* the spec merged for a property: the layer's override when there is one
MergedSpec(effect, layerId, property) ==
  IF HasEntry(effect.layerProperties, layerId)
     /\ HasEntry(GetEntry(effect.layerProperties, layerId), property)
  THEN GetEntry(GetEntry(effect.layerProperties, layerId), property)
  ELSE GetEntry(effect.properties, property)

RECURSIVE ApplyProperties(_, _, _, _, _, _)
ApplyProperties(mp, layerId, entries, i, easedFactor, enabled) ==
  IF i > Len(entries) THEN mp
  ELSE ApplyProperties(
         ApplyProperty(mp, <<layerId, entries[i].key>>,
                       MergedSpec(mp.effect, layerId, entries[i].key),
                       easedFactor, enabled),
         layerId, entries, i + 1, easedFactor, enabled)

RECURSIVE ApplyLayers(_, _, _, _)
ApplyLayers(mp, i, easedFactor, enabled) ==
  IF i > Len(mp.effect.layers) THEN mp
  ELSE ApplyLayers(
         ApplyProperties(mp, mp.effect.layers[i],
                         MergedProperties(mp.effect, mp.effect.layers[i]), 1,
                         easedFactor, enabled),
         i + 1, easedFactor, enabled)

\* the result of the effect's isEnabled: the caller's function (which reads
\* a flag of the page), else anything but false counts as enabled
EffectEnabled(mp) ==
  IF mp.effect.isEnabled = "function" THEN mp.enabledFlag
  ELSE mp.effect.isEnabled # "false"

\* apply(factor) of the basemap effect applier
apply(mp, factor) ==
  IF ~mp.effect.hasEffect \/ Len(mp.effect.layers) = 0 THEN mp
  ELSE ApplyLayers([mp EXCEPT !.lastOp = "apply", !.enabledThen = EffectEnabled(mp)],
                   1, clampValue(Num(factor), 0, FactorOne)[1], EffectEnabled(mp))

RECURSIVE ResetKeys(_, _)
\* reset(): every captured value that is not undefined is written back
ResetKeys(mp, keys) ==
  IF keys = {} THEN mp
  ELSE LET key == CHOOSE k \in keys : TRUE
       IN ResetKeys(
            IF mp.originals[key].has /\ mp.originals[key].value # Unset
            THEN setPaintProperty(mp, key, mp.originals[key].value)
            ELSE mp,
            keys \ {key})

reset(mp) == IF ~mp.effect.hasEffect THEN mp ELSE ResetKeys(mp, DOMAIN mp.originals)

\* remove(): the effect is reset, then the layers and sources are removed
remove(mp) == [reset(mp) EXCEPT !.lastOp = "remove", !.source = <<>>, !.added = FALSE]

\* createMapLibreMorphLayers after the engine is prepared: the three
\* accessors, the sources and layers, then the effect applied once
BuildMapLayers(mp, st, morphFactor, strict) ==
  IF \E i \in 1..3 : LayerCollections(st, morphFactor, strict)[i].status # "ok"
  THEN [mp EXCEPT !.pc = "rejected"]
  ELSE apply([mp EXCEPT
                !.pc = "ready",
                !.added = TRUE,
                !.source = LayerCollections(st, morphFactor, strict)[3].value[1].features,
                !.currentMorphFactor = morphFactor],
             morphFactor)

\* updateMorphFactor(nextFactor) of the MapLibre controller: it throws for
\* a factor that is not finite, when the accessor throws and when the
\* interpolated source is gone
updateMapMorphFactor(mp, st, nextFactor, strict) ==
  IF nextFactor = NaNFactor THEN [mp EXCEPT !.lastOp = "threw"]
  ELSE IF getInterpolatedFeatureCollection(st, nextFactor, strict).status # "ok"
  THEN [mp EXCEPT !.lastOp = "threw"]
  ELSE IF ~mp.added THEN [mp EXCEPT !.lastOp = "threw"]
  ELSE apply([mp EXCEPT
                !.lastOp = "update",
                !.source = getInterpolatedFeatureCollection(st, nextFactor, strict)
                             .value[1].features,
                !.currentMorphFactor = nextFactor],
             nextFactor)

\* one entry of an options object
Entry(key, value) == [key |-> key, value |-> value]

\* the basemapEffect options explored
Effect(layers, properties, layerProperties, clampRange, isEnabledKind, resetOnDisable) ==
  [hasEffect |-> TRUE, layers |-> layers, properties |-> properties,
   layerProperties |-> layerProperties, clamp |-> clampRange,
   isEnabled |-> isEnabledKind, resetOnDisable |-> resetOnDisable]

NoMapEffect ==
  [hasEffect |-> FALSE, layers |-> <<>>, properties |-> <<>>,
   layerProperties |-> <<>>, clamp |-> <<>>, isEnabled |-> "undefined",
   resetOnDisable |-> TRUE]

MapEffects ==
  {NoMapEffect,
   Effect(<<"raster", "labels">>,
          <<Entry("opacity", PairSpec(1000, 200)), Entry("saturation", NumberSpec(500))>>,
          <<Entry("labels", <<Entry("opacity", FunctionSpec)>>)>>,
          <<>>, "function", TRUE),
   Effect(<<"raster", "ghost">>,
          <<Entry("opacity", FromSpec(300)), Entry("saturation", ThrowingSpec)>>,
          <<>>, <<100, 900>>, "function", FALSE),
   Effect(<<"labels">>,
          <<Entry("opacity", TextSpec), Entry("saturation", ToSpec(800))>>,
          <<Entry("labels", <<Entry("saturation", PairSpec(0, 1500))>>)>>,
          <<0, 1000>>, "undefined", TRUE),
   Effect(<<"raster">>,
          <<Entry("opacity", PairSpec(1000, 0))>>,
          <<>>, <<>>, "false", TRUE)}

\* the paint of the style before the effect: nothing set, or some set
UnsetPaint == [key \in PaintKeys |-> Unset]

SomePaint ==
  [key \in PaintKeys |->
     IF key = <<"raster", "opacity">> THEN Num(1000)
     ELSE IF key = <<"labels", "opacity">> THEN Num(800)
     ELSE IF key = <<"labels", "saturation">> THEN Num(0)
     ELSE Unset]

MapPaints == {UnsetPaint, SomePaint}

\* the keys the Map of originals may hold
OriginalKeys == (MapLayers \cup {"ghost"}) \X PaintProperties

MapFactors == {0, 400, FactorOne}

\* ------------------------------------------------------------------- state
VARIABLES
  cfg,          \* configuration fields of the instance (this.regularGeoJSON, ...)
  data,         \* this.data
  cached,       \* this._normalizedCartogramGeoJSON
  state,        \* this.state
  calls,        \* the prepare() invocations: position and loaded rows
  loaderCalls,  \* number of times getData() has been invoked
  commits,      \* number of prepare() calls that assigned this.state
  held,         \* the accessor result the caller holds
  strict,       \* whether the turf build rejects a NaN centroid
  wrapper,      \* the geoMorpher(options) wrapper that created the instance
  assigns,      \* number of reassignments of a configuration field
  mutations,    \* number of caller mutations of returned values
  grid,         \* a direct call of normalizeCartogramInput and its result
  layers,       \* what createLeafletMorphLayers built, and the basemap element
  glyphs,       \* what createLeafletGlyphLayer built: markers and layer group
  maplibre,     \* what createMapLibreMorphLayers built, and the map's paint
  pairing       \* a direct application of matchRingPairs and its result

vars == <<cfg, data, cached, state, calls, loaderCalls, commits, held, strict,
          wrapper, assigns, mutations, grid, layers, glyphs, maplibre, pairing>>

\* what lives outside the engine instance
SideVars == <<grid, layers, glyphs, maplibre, pairing>>

\* no call of normalizeCartogramInput
NoGrid ==
  [pc |-> "none", input |-> CartogramNull, regular |-> <<>>,
   options |-> DefaultGridOptions, result |-> GridThrows, touched |-> FALSE]

\* no call of createLeafletMorphLayers; requested, enabledThen and outcome
\* record the factor of the latest call, what isEnabled() gave at that
\* moment and whether the call returned
NoLayers ==
  [pc |-> "none", options |-> NoEffect, effectEnabled |-> TRUE,
   element |-> PlainStyle, initial |-> PlainStyle, captured |-> FALSE,
   originalStyles |-> PlainStyle, tween |-> <<>>, call |-> 0,
   morphFactor |-> 0, requested |-> 0, enabledThen |-> TRUE,
   outcome |-> "none"]

\* no call of createLeafletGlyphLayer; last is the result of the latest
\* updateGlyphs call, cleared tells that clear() ran after it, asked is the
\* geometry and factor the page asked for last
NoGlyphs ==
  [pc |-> "none", call |-> 0, currentGeometry |-> DEFAULT_GEOMETRY,
   currentMorphFactor |-> 0, markers |-> <<>>, group |-> {}, nextIds |-> {},
   last |-> UpdateResult("none", 0), cleared |-> FALSE,
   asked |-> [geometry |-> DEFAULT_GEOMETRY, morphFactor |-> 0]]

\* no call of createMapLibreMorphLayers; paint is the paint of the map's
\* style, initial what it was before the effect, modified the keys
\* setPaintProperty wrote, lastOp the latest call of the controller and
\* enabledThen what isEnabled gave in the latest apply
NoMapLibre ==
  [pc |-> "none", call |-> 0, effect |-> NoMapEffect, enabledFlag |-> TRUE,
   paint |-> UnsetPaint, initial |-> UnsetPaint,
   originals |-> [key \in OriginalKeys |-> [has |-> FALSE, value |-> Unset]],
   modified |-> {}, source |-> <<>>, added |-> FALSE,
   currentMorphFactor |-> 0, lastOp |-> "none", enabledThen |-> TRUE]

\* no application of matchRingPairs
NoPairing ==
  [pc |-> "none", fromRings |-> <<>>, toRings |-> <<>>, pairs |-> <<>>,
   interpolator |-> NullInterpolator]

\* number of caller mutations of returned values explored
MaxMutations == 1

\* number of caller reassignments of a configuration field explored
MaxAssigns == 1

CallIds == 1..MaxCalls

IdleCall == [pc |-> "idle", modelData |-> NullData]

NoHeld ==
  [acc |-> "none", factor |-> 0, epoch |-> 0, result |-> NotPrepared,
   mutated |-> FALSE]

NoWrapper == [pc |-> "none", morphFactor |-> DefaultFactor, prepared |-> FALSE,
              tweenLookup |-> NotPrepared]

\* the constructor options explored: [regularGeoJSON, cartogramGeoJSON,
\* projection, getData given, data]
Setup(regular, cartogram, projection, hasLoader, rows) ==
  [cfg |-> [regularGeoJSON |-> regular, cartogramGeoJSON |-> cartogram,
            aggregation |-> "sum", normalize |-> TRUE,
            projection |-> projection, hasLoader |-> hasLoader,
            cartogramGridOptions |-> DefaultGridOptions],
   data |-> rows]

Setups ==
  {Setup(RegularSquares, CartogramBoth, "custom", TRUE, NullData),
   Setup(RegularSquares, CartogramOnlyA, "wgs84", FALSE, Rows1),
   Setup(RegularMulti, CartogramMulti, "custom", FALSE, Rows1),
   Setup(RegularDegenerate, CartogramDegenerate, "wgs84", FALSE, NullData),
   Setup(RegularSquares, CartogramNull, "custom", FALSE, Rows1),
   Setup(RegularMulti, CartogramBoth, "throws", FALSE, NullData),
   Setup(RegularDuplicate, CartogramMulti, "wgs84", FALSE, NullData)}

Init ==
  /\ \E setup \in Setups : cfg = setup.cfg /\ data = setup.data
  /\ cached = <<>>
  /\ state = InitialState
  /\ calls = [c \in CallIds |-> IdleCall]
  /\ loaderCalls = 0
  /\ commits = 0
  /\ held = NoHeld
  /\ strict \in BOOLEAN
  /\ wrapper = NoWrapper
  /\ assigns = 0
  /\ mutations = 0
  /\ grid = NoGrid
  /\ layers = NoLayers
  /\ glyphs = NoGlyphs
  /\ maplibre = NoMapLibre
  /\ pairing = NoPairing

\* the instance is reachable by the caller (not private to a running wrapper)
Exposed == wrapper.pc # "awaiting"

\* loadData that asks getData before looking at this.data
StartCall_NoMemo(c) ==
  /\ calls[c].pc = "idle"
  /\ \A d \in CallIds : d < c => calls[d].pc # "idle"
  /\ IF cfg.hasLoader
     THEN /\ calls' = [calls EXCEPT ![c] = [pc |-> "loading", modelData |-> NullData]]
          /\ loaderCalls' = loaderCalls + 1
     ELSE IF data.kind = "array"
     THEN /\ calls' = [calls EXCEPT ![c] = [pc |-> "loaded", modelData |-> data]]
          /\ UNCHANGED loaderCalls
     ELSE /\ calls' = [calls EXCEPT ![c] = [pc |-> "loaded", modelData |-> EmptyRows]]
          /\ UNCHANGED loaderCalls

\* prepare() up to its first suspension: loadData() returns this.data when
\* it is an array, else invokes getData() when it is a function, else []
StartCall(c) ==
  /\ calls[c].pc = "idle"
  /\ \A d \in CallIds : d < c => calls[d].pc # "idle"
  /\ IF data.kind = "array"
     THEN /\ calls' = [calls EXCEPT ![c] = [pc |-> "loaded", modelData |-> data]]
          /\ UNCHANGED loaderCalls
     ELSE IF cfg.hasLoader
     THEN /\ calls' = [calls EXCEPT ![c] = [pc |-> "loading", modelData |-> NullData]]
          /\ loaderCalls' = loaderCalls + 1
     ELSE /\ calls' = [calls EXCEPT ![c] = [pc |-> "loaded", modelData |-> EmptyRows]]
          /\ UNCHANGED loaderCalls

PrepareStart(c) ==
  /\ Exposed
  /\ StartCall(c)
  /\ UNCHANGED <<cfg, data, cached, state, commits, held, strict, wrapper, assigns,
                 mutations>>
  /\ UNCHANGED SideVars

\* the getData() promise settles: loadData stores the result in this.data
\* and returns it; a rejection propagates out of prepare()
LoaderSettle(c, outcome) ==
  /\ calls[c].pc = "loading"
  /\ IF outcome = "reject"
     THEN /\ calls' = [calls EXCEPT ![c].pc = "rejected"]
          /\ UNCHANGED data
     ELSE /\ data' = LoaderValue(outcome)
          /\ calls' = [calls EXCEPT ![c] = [pc |-> "loaded",
                                            modelData |-> LoaderValue(outcome)]]
  /\ UNCHANGED <<cfg, cached, state, loaderCalls, commits, held, strict, wrapper,
                 assigns, mutations>>
  /\ UNCHANGED SideVars

\* prepare() that clears the interpolators before rebuilding them
SettlePrepare_Partial(c, body) ==
  /\ cached' = body.cached
  /\ IF body.status = "ok"
     THEN /\ state' = body.state
          /\ commits' = commits + 1
          /\ calls' = [calls EXCEPT ![c].pc = "resolved"]
     ELSE /\ calls' = [calls EXCEPT ![c].pc = "rejected"]
          /\ state' = [state EXCEPT !.interpolators = <<>>]
          /\ UNCHANGED commits

\* prepare() that keeps the keyData an earlier call stored
SettlePrepare_Mixed(c, body) ==
  /\ cached' = body.cached
  /\ IF body.status = "ok"
     THEN /\ state' = IF state.prepared
                      THEN [body.state EXCEPT !.keyData = state.keyData]
                      ELSE body.state
          /\ commits' = commits + 1
          /\ calls' = [calls EXCEPT ![c].pc = "resolved"]
     ELSE /\ calls' = [calls EXCEPT ![c].pc = "rejected"]
          /\ UNCHANGED <<state, commits>>

\* the end of prepare(): this.state is assigned when nothing threw, and the
\* promise settles; body is the outcome of the synchronous part
SettlePrepare(c, body) ==
  /\ cached' = body.cached
  /\ IF body.status = "ok"
     THEN /\ state' = body.state
          /\ commits' = commits + 1
          /\ calls' = [calls EXCEPT ![c].pc = "resolved"]
     ELSE /\ calls' = [calls EXCEPT ![c].pc = "rejected"]
          /\ UNCHANGED <<state, commits>>

\* the rest of prepare(), which runs without suspension
PrepareFinish(c) ==
  /\ calls[c].pc = "loaded"
  /\ SettlePrepare(c, PrepareBody(calls[c].modelData, cfg, cached, strict))
  /\ UNCHANGED <<cfg, data, loaderCalls, held, strict, wrapper, assigns, mutations>>
  /\ UNCHANGED SideVars

\* the caller invokes an accessor and keeps what it returned (or threw)
Read(acc, factor) ==
  /\ Exposed
  /\ TakesFactor(acc) \/ factor = DefaultFactor
  /\ held' = [acc |-> acc, factor |-> factor, epoch |-> commits,
              result |-> AccessorResult(acc, factor, state, strict),
              mutated |-> FALSE]
  /\ UNCHANGED <<cfg, data, cached, state, calls, loaderCalls, commits, strict,
                 wrapper, assigns, mutations>>
  /\ UNCHANGED SideVars

\* ---------------------------------------------- structure shared with inputs
\* Whether a value holds objects of the caller's regularGeoJSON (TRUE) or
\* only objects the engine made (FALSE), followed through prepare().
\* a copy that keeps the objects of what it copies
cloneDeepShares_Shallow(shares) == shares

\* cloneDeep(value): the copy holds no object of the value
cloneDeepShares(shares) == FALSE

\* enrichGeoData hands geojson back when there are no rows or no features,
\* else it works on cloneDeep(geojson)
enrichGeoDataShares(shares, modelData, geojson) ==
  IF modelData.kind # "array" \/ Len(modelData.rows) = 0 THEN shares
  ELSE IF Len(geojson.features) = 0 THEN shares
  ELSE cloneDeepShares(shares)

\* state.regularEnriched, which keyData[code].data points into:
\* enrichGeoData({geojson: cloneDeep(this.regularGeoJSON), ...})
RegularEnrichedShares(config, modelData) ==
  enrichGeoDataShares(cloneDeepShares(TRUE), modelData, config.regularGeoJSON)

\* state.regularWGS84 and state.geographyLookup:
\* toWGS84FeatureCollection works on cloneDeep(fc)
RegularWGS84Shares(config, modelData) ==
  cloneDeepShares(RegularEnrichedShares(config, modelData))

RECURSIVE LastIndexOfCode(_, _)
\* the feature object a lookup keeps for a key: the last one carrying it
LastIndexOfCode(features, code) ==
  IF features = <<>> THEN 0
  ELSE IF features[Len(features)].properties.code = code THEN Len(features)
  ELSE LastIndexOfCode(SubSeq(features, 1, Len(features) - 1), code)

\* feature.properties.tags.push("x") reaching the caller's regularGeoJSON
InputPushTag(config, code) ==
  [config EXCEPT
     !.regularGeoJSON.features[LastIndexOfCode(config.regularGeoJSON.features, code)]
        .properties.tags = Append(@, "x")]

\* getKeyData returns this.state.keyData itself: `delete result[key]` on
\* the returned object removes the entry from the engine state
KeyDataDelete(st) == [st EXCEPT !.keyData = Tail(@)]

\* result[key].data is a feature object of state.regularEnriched:
\* result[key].data.properties.tags.push("x")
KeyDataPushTag(st) ==
  LET code == st.keyData[1].value.code
      j == LastIndexOfCode(st.regularEnriched[1].features, code)
  IN [st EXCEPT
        !.keyData[1].value.data.properties.tags = Append(@, "x"),
        !.regularEnriched[1].features[j].properties.tags = Append(@, "x")]

\* an interpolated feature is built with {...baseFeature.properties}: its
\* nested property values are the objects held by state.geographyLookup,
\* which state.regularWGS84 shares: feature.properties.tags.push("x")
InterpolatedPushTag(st, code) ==
  LET i == EntryIndex(st.geographyLookup, code, 1)
      j == LastIndexOfCode(st.regularWGS84[1].features, code)
  IN [st EXCEPT
        !.geographyLookup[i].value.properties.tags = Append(@, "x"),
        !.regularWGS84[1].features[j].properties.tags = Append(@, "x")]

\* the join key of the first feature of a held interpolated result
FirstCode(h) ==
  IF h.acc = "getInterpolatedFeatureCollection"
  THEN h.result.value[1].features[1].properties.code
  ELSE h.result.value[1][1].key

HeldSize(h) ==
  IF h.acc \in {"getRegularFeatureCollection", "getCartogramFeatureCollection",
                "getInterpolatedFeatureCollection"}
  THEN Len(h.result.value[1].features)
  ELSE Len(h.result.value[1])

\* the caller mutates the value an accessor returned: kind "top" changes
\* the returned object itself, kind "nested" a nested property value
MutateHeld(kind) ==
  /\ Exposed
  /\ held.acc # "none"
  /\ held.result.status = "ok"
  /\ ~held.mutated
  /\ HeldSize(held) > 0
  /\ mutations < MaxMutations
  /\ mutations' = mutations + 1
  /\ held' = [held EXCEPT !.mutated = TRUE]
  /\ IF held.epoch # commits THEN UNCHANGED state
     ELSE IF held.acc = "getKeyData"
     THEN state' = IF kind = "top" THEN KeyDataDelete(state)
                   ELSE KeyDataPushTag(state)
     ELSE IF TakesFactor(held.acc) /\ kind = "nested"
     THEN state' = InterpolatedPushTag(state, FirstCode(held))
     ELSE UNCHANGED state
  /\ cfg' = IF held.epoch # commits \/ kind # "nested" THEN cfg
            ELSE IF /\ held.acc = "getKeyData"
                    /\ \E c \in CallIds : RegularEnrichedShares(cfg, calls[c].modelData)
            THEN InputPushTag(cfg, state.keyData[1].value.code)
            ELSE IF /\ TakesFactor(held.acc)
                    /\ \E c \in CallIds : RegularWGS84Shares(cfg, calls[c].modelData)
            THEN InputPushTag(cfg, FirstCode(held))
            ELSE cfg
  /\ UNCHANGED <<data, cached, calls, loaderCalls, commits, strict, wrapper,
                 assigns>>
  /\ UNCHANGED SideVars

\* the caller assigns a configuration field of the instance
AssignConfig(field, value) ==
  /\ Exposed
  /\ assigns < MaxAssigns
  /\ assigns' = assigns + 1
  /\ cfg' = IF field = "regularGeoJSON" THEN [cfg EXCEPT !.regularGeoJSON = value]
            ELSE [cfg EXCEPT !.cartogramGeoJSON = value]
  /\ cfg' # cfg
  /\ UNCHANGED <<data, cached, state, calls, loaderCalls, commits, held, strict,
                 wrapper, mutations>>
  /\ UNCHANGED SideVars

\* geoMorpher(options): new GeoMorpher(options) followed by prepare()
WrapperStart(morphFactor) ==
  /\ wrapper.pc = "none"
  /\ \A c \in CallIds : calls[c].pc = "idle"
  /\ held = NoHeld
  /\ assigns = 0
  /\ StartCall(1)
  /\ wrapper' = [wrapper EXCEPT !.pc = "awaiting", !.morphFactor = morphFactor]
  /\ UNCHANGED <<cfg, data, cached, state, commits, held, strict, assigns, mutations>>
  /\ UNCHANGED SideVars

\* a wrapper that returns its object whatever prepare() and the accessors
\* did
WrapperSettle_Always(tween) ==
  wrapper' = [wrapper EXCEPT !.pc = "resolved",
                             !.prepared = isPrepared(state),
                             !.tweenLookup = tween]

\* the wrapper's promise: rejected when prepare() or an accessor threw,
\* else resolved with the morpher and the accessor results
WrapperSettle(tween) ==
  IF \/ calls[1].pc = "rejected"
     \/ getKeyData(state).status # "ok"
     \/ tween.status # "ok"
  THEN wrapper' = [wrapper EXCEPT !.pc = "rejected"]
  ELSE wrapper' = [wrapper EXCEPT !.pc = "resolved",
                                  !.prepared = isPrepared(state),
                                  !.tweenLookup = tween]

\* geoMorpher(options) after `await morpher.prepare()`: the accessor calls
\* that build the returned object
WrapperFinish ==
  /\ wrapper.pc = "awaiting"
  /\ calls[1].pc \in {"resolved", "rejected"}
  /\ WrapperSettle(getInterpolatedLookup(state, wrapper.morphFactor, strict))
  /\ UNCHANGED <<cfg, data, cached, state, calls, loaderCalls, commits, held,
                 strict, assigns, mutations>>
  /\ UNCHANGED SideVars

\* The lifecycle of one instance: any number of prepare() calls, sequential
\* or overlapping, reassigned configuration fields and the
\* geoMorpher(options) wrapper with its accessor calls.
Next ==
  \/ \E c \in CallIds : PrepareStart(c)
  \/ \E c \in CallIds, outcome \in LoaderOutcomes : LoaderSettle(c, outcome)
  \/ \E c \in CallIds : PrepareFinish(c)
  \/ \E value \in RegularInputs : AssignConfig("regularGeoJSON", value)
  \/ \E value \in CartogramInputs : AssignConfig("cartogramGeoJSON", value)
  \/ \E morphFactor \in WrapperFactors : WrapperStart(morphFactor)
  \/ WrapperFinish

Spec == Init /\ [][Next]_vars

\* One prepare() call, accessor calls with every factor at any moment
\* (before, during and after the call) and caller mutations of the
\* returned values.
NextRead ==
  \/ PrepareStart(1)
  \/ \E outcome \in LoaderOutcomes : LoaderSettle(1, outcome)
  \/ PrepareFinish(1)
  \/ \E acc \in Accessors, factor \in Factors : Read(acc, factor)
  \/ \E kind \in {"top", "nested"} : MutateHeld(kind)

SpecRead == Init /\ [][NextRead]_vars

\* the entries of the aggregation spec explored for the column; "reducer"
\* is a caller-supplied function (values, feature) -> value
AggregationKinds ==
  {"sum", "mean", "min", "max", "count", "unique_count", "array", "reducer"}

EnrichData == {Rows1, Rows2, Rows3, Rows4, Rows5, Rows6, NullData, EmptyRows}

InitEnrich ==
  /\ \E aggregation \in AggregationKinds, normalize \in BOOLEAN :
       cfg = [regularGeoJSON |-> RegularEnrich, cartogramGeoJSON |-> CartogramEnrich,
              aggregation |-> aggregation, normalize |-> normalize,
              projection |-> "wgs84", hasLoader |-> FALSE,
              cartogramGridOptions |-> DefaultGridOptions]
  /\ data \in EnrichData
  /\ cached = <<>>
  /\ state = InitialState
  /\ calls = [c \in CallIds |-> IdleCall]
  /\ loaderCalls = 0
  /\ commits = 0
  /\ held = NoHeld
  /\ strict \in BOOLEAN
  /\ wrapper = NoWrapper
  /\ assigns = 0
  /\ mutations = 0
  /\ grid = NoGrid
  /\ layers = NoLayers
  /\ glyphs = NoGlyphs
  /\ maplibre = NoMapLibre
  /\ pairing = NoPairing

\* One prepare() call of an engine configured with rows, an aggregation
\* spec and the normalize option, and the accessors of the prepared
\* collections.
NextEnrich ==
  \/ PrepareStart(1)
  \/ PrepareFinish(1)
  \/ \E acc \in {"getRegularFeatureCollection", "getCartogramFeatureCollection"} :
       Read(acc, DefaultFactor)

SpecEnrich == InitEnrich /\ [][NextEnrich]_vars

\* ---------------------------------------------- normalizeCartogramInput calls
\* row and column indexes of the grid records explored
MaxGridIndex == 2

GridIndexes == 0..MaxGridIndex

RowsInput(records) == [kind |-> "rows", fc |-> NoOutput, records |-> records]

TextInput(records) == [kind |-> "text", fc |-> NoOutput, records |-> records]

WrapperInput(records) == [kind |-> "wrapper", fc |-> NoOutput, records |-> records]

CellRecord(id, row, col) == GridRecord(id, NumberField(row), NumberField(col))

\* two records A and B with numeric row and col
ValidRecords == <<CellRecord("A", 0, 0), CellRecord("B", 0, 1)>>

\* the inputs of every shape: missing, GeoJSON, arrays (empty, of values
\* that are not objects, of records with a missing, null, empty or
\* non-numeric field or without identifier), text (parsed to no record, to
\* records, to records with an empty field), wrappers, other values
ShapeInputs ==
  {CartogramNull, CartogramBoth,
   RowsInput(<<>>), RowsInput(<<NonObject>>), RowsInput(<<NonObject, ValidRecords[1]>>),
   RowsInput(<<ValidRecords[1], NonObject>>), RowsInput(ValidRecords),
   RowsInput(<<ValidRecords[1], GridRecord("B", MissingField, NumberField(1))>>),
   RowsInput(<<ValidRecords[1], GridRecord("B", NullField, NumberField(1))>>),
   RowsInput(<<ValidRecords[1], GridRecord("B", NumberField(1), EmptyField)>>),
   RowsInput(<<ValidRecords[1], GridRecord("B", NumberField(1), TextField)>>),
   RowsInput(<<ValidRecords[1], CellRecord("", 1, 1)>>),
   TextInput(<<>>), TextInput(ValidRecords),
   TextInput(<<ValidRecords[1], GridRecord("B", EmptyField, NumberField(1))>>),
   WrapperInput(<<>>), WrapperInput(ValidRecords),
   [kind |-> "object", fc |-> NoOutput, records |-> <<>>],
   [kind |-> "scalar", fc |-> NoOutput, records |-> <<>>]}

\* no regular geography, one without coordinates, the two squares
ShapeRegulars == {<<>>, <<CollectionOf(<<>>)>>, <<RegularSquares>>}

OptionsWith(extent, cellPadding, rowOrientation, colOrientation) ==
  [extent |-> extent, cellPadding |-> cellPadding,
   rowOrientation |-> rowOrientation, colOrientation |-> colOrientation]

\* default options, an explicit extent, an extent with a value that is not
\* a finite number, an extent of three values
ShapeOptions ==
  {DefaultGridOptions,
   OptionsWith(<<0, 0, 90, 60>>, 8, "top", "left"),
   OptionsWith(<<0, 0, NonNumeric, 60>>, 8, "top", "left"),
   OptionsWith(<<0, 0, 90>>, 8, "sideways", "left")}

\* the extents explored: the regular geography's bounding box, two
\* rectangles, a rectangle of width 0 and one given from right to left
CellExtents ==
  {<<>>, <<0, 0, 90, 60>>, <<-50, -20, 10, 40>>, <<10, 10, 10, 50>>,
   <<100, 0, 0, 50>>}

\* cellPadding in hundredths: 0.01, the default 0.08, 0.49, 0.75 (clamped
\* to 0.49), 0 and a value that is not finite
CellPaddings == {1, 8, 49, 75, 0, NonNumeric}

\* two records at two different cells of the grid
CellInputs ==
  {RowsInput(<<CellRecord("A", a[1], a[2]), CellRecord("B", b[1], b[2])>>) :
     <<a, b>> \in {pair \in (GridIndexes \X GridIndexes) \X (GridIndexes \X GridIndexes) :
                     pair[1] # pair[2]}}

CellOptions ==
  {OptionsWith(extent, cellPadding, rowOrientation, colOrientation) :
     extent \in CellExtents, cellPadding \in CellPaddings,
     rowOrientation \in {"top", "bottom"}, colOrientation \in {"left", "right"}}

\* record A at row 0 and column 0, record B before or after it
OffsetInputs ==
  {RowsInput(<<CellRecord("A", 0, 0), CellRecord("B", row, col)>>) :
     row \in {-1, 1}, col \in {-1, 1}}

\* the orientations a caller may pass, one of them not recognized
OrientationOptions ==
  {OptionsWith(extent, cellPadding, rowOrientation, colOrientation) :
     extent \in {<<0, 0, 90, 60>>, <<-50, -20, 10, 40>>}, cellPadding \in {8, 0},
     rowOrientation \in {"top", "bottom", "sideways"},
     colOrientation \in {"left", "right", "sideways"}}

\* records A and B at the two ends of the number range along one axis
FarRecord(id, axis, far, near) ==
  IF axis = "row" THEN CellRecord(id, far, near) ELSE CellRecord(id, near, far)

FarInputs ==
  {RowsInput(<<FarRecord("A", axis, a, 0), FarRecord("B", axis, b, near)>>) :
     axis \in {"row", "col"}, a \in {-MaxFinite, MaxFinite},
     b \in {-MaxFinite, MaxFinite}, near \in {0, 1}}

FarOptions ==
  {OptionsWith(<<0, 0, 90, 60>>, cellPadding, "top", "left") : cellPadding \in {8, 0}}

GridCall(input, regular, options) ==
  [pc |-> "ready", input |-> input, regular |-> regular, options |-> options,
   result |-> GridThrows, touched |-> FALSE]

InitGrid ==
  /\ cfg = Setup(RegularSquares, CartogramBoth, "wgs84", FALSE, NullData).cfg
  /\ data = NullData
  /\ cached = <<>>
  /\ state = InitialState
  /\ calls = [c \in CallIds |-> IdleCall]
  /\ loaderCalls = 0
  /\ commits = 0
  /\ held = NoHeld
  /\ strict = FALSE
  /\ wrapper = NoWrapper
  /\ assigns = 0
  /\ mutations = 0
  /\ layers = NoLayers
  /\ glyphs = NoGlyphs
  /\ maplibre = NoMapLibre
  /\ pairing = NoPairing
  /\ \/ \E input \in ShapeInputs, regular \in ShapeRegulars, options \in ShapeOptions :
          grid = GridCall(input, regular, options)
     \/ \E input \in CellInputs, options \in CellOptions :
          grid = GridCall(input, <<RegularSquares>>, options)
     \/ \E input \in OffsetInputs, options \in OrientationOptions :
          grid = GridCall(input, <<RegularSquares>>, options)
     \/ \E input \in FarInputs, options \in FarOptions :
          grid = GridCall(input, <<RegularSquares>>, options)

\* normalizeCartogramInput({input, regularGeoJSON, joinProperty, gridOptions})
NormalizeCartogram ==
  /\ grid.pc = "ready"
  /\ grid' = [grid EXCEPT
                !.pc = "done",
                !.result = normalizeCartogramInput(grid.input, grid.regular,
                                                   grid.options)]
  /\ UNCHANGED <<cfg, data, cached, state, calls, loaderCalls, commits, held, strict,
                 wrapper, assigns, mutations, layers, glyphs,
                 maplibre, pairing>>

\* the caller removes the first feature of the GeoJSON object it passed in;
\* a result that is that very object loses the feature too
MutateInput ==
  /\ grid.pc = "done"
  /\ grid.input.kind = "geojson"
  /\ ~grid.touched
  /\ Len(grid.input.fc.features) > 0
  /\ grid' = [grid EXCEPT
                !.touched = TRUE,
                !.input.fc.features = Tail(@),
                !.result.fc = IF grid.result.alias
                              THEN [@ EXCEPT !.features = Tail(@)]
                              ELSE @]
  /\ UNCHANGED <<cfg, data, cached, state, calls, loaderCalls, commits, held, strict,
                 wrapper, assigns, mutations, layers, glyphs,
                 maplibre, pairing>>

\* One call of normalizeCartogramInput on an input of any shape, and what
\* the caller does with the input afterwards.
NextGrid ==
  \/ NormalizeCartogram
  \/ MutateInput

SpecGrid == InitGrid /\ [][NextGrid]_vars

\* ------------------------------------------------ Leaflet helper calls
\* the options of the helpers explored: engines whose data is an array or
\* absent, so that every prepare() call builds the same state
LeafletSetups ==
  {Setup(RegularSquares, CartogramOnlyA, "wgs84", FALSE, Rows1),
   Setup(RegularDuplicate, CartogramMulti, "wgs84", FALSE, NullData),
   Setup(RegularMulti, CartogramBoth, "throws", FALSE, NullData)}

InitEngine ==
  /\ \E setup \in LeafletSetups : cfg = setup.cfg /\ data = setup.data
  /\ cached = <<>>
  /\ state = InitialState
  /\ calls = [c \in CallIds |-> IdleCall]
  /\ loaderCalls = 0
  /\ commits = 0
  /\ held = NoHeld
  /\ strict \in BOOLEAN
  /\ wrapper = NoWrapper
  /\ assigns = 0
  /\ mutations = 0
  /\ grid = NoGrid

\* the page: the basemap element with its inline styles and the
\* basemapEffect options it will pass
InitLayers ==
  /\ InitEngine
  /\ \E options \in EffectOptionSets, style \in ElementStyles :
       layers = [NoLayers EXCEPT !.options = options, !.element = style,
                                 !.initial = style]
  /\ glyphs = NoGlyphs
  /\ maplibre = NoMapLibre
  /\ pairing = NoPairing

\* createLeafletMorphLayers({morpher, L, morphFactor, basemapLayer,
\* basemapEffect}) up to its first suspension: a prepared engine is used as
\* it is, else prepare() is called and awaited
CreateLayersStart(morphFactor) ==
  /\ layers.pc = "none"
  /\ IF isPrepared(state)
     THEN /\ layers' = BuildLayers([layers EXCEPT !.morphFactor = morphFactor],
                                   state, morphFactor, strict)
          /\ UNCHANGED <<calls, loaderCalls>>
     ELSE /\ \E c \in CallIds :
               /\ StartCall(c)
               /\ layers' = [layers EXCEPT !.pc = "awaiting", !.call = c,
                                           !.morphFactor = morphFactor]
  /\ UNCHANGED <<cfg, data, cached, state, commits, held, strict, wrapper, assigns,
                 mutations, grid, glyphs,
                 maplibre, pairing>>

\* createLeafletMorphLayers after `await morpher.prepare()`
CreateLayersFinish ==
  /\ layers.pc = "awaiting"
  /\ calls[layers.call].pc \in {"resolved", "rejected"}
  /\ layers' = IF calls[layers.call].pc = "rejected"
               THEN [layers EXCEPT !.pc = "rejected"]
               ELSE BuildLayers(layers, state, layers.morphFactor, strict)
  /\ UNCHANGED <<cfg, data, cached, state, calls, loaderCalls, commits, held,
                 strict, wrapper, assigns, mutations, grid, glyphs,
                 maplibre, pairing>>

\* the page calls updateMorphFactor(nextFactor) of the returned object
UpdateMorphFactor(nextFactor) ==
  /\ layers.pc = "ready"
  /\ layers' = updateMorphFactor(layers, state, nextFactor, strict)
  /\ UNCHANGED <<cfg, data, cached, state, calls, loaderCalls, commits, held,
                 strict, wrapper, assigns, mutations, grid, glyphs,
                 maplibre, pairing>>

\* the page flips the flag its isEnabled function reads
ToggleEffect ==
  /\ layers.options.hasIsEnabled
  /\ layers.pc \in {"none", "ready"}
  /\ layers' = [layers EXCEPT !.effectEnabled = ~@]
  /\ UNCHANGED <<cfg, data, cached, state, calls, loaderCalls, commits, held,
                 strict, wrapper, assigns, mutations, grid, glyphs,
                 maplibre, pairing>>

\* A page that prepares an engine (or leaves that to the helper), creates
\* the morph layers once, then moves the factor and toggles the effect.
NextLayers ==
  \/ PrepareStart(1)
  \/ \E c \in CallIds : PrepareFinish(c)
  \/ \E morphFactor \in LeafletFactors : CreateLayersStart(morphFactor)
  \/ CreateLayersFinish
  \/ \E nextFactor \in LeafletFactors : UpdateMorphFactor(nextFactor)
  \/ ToggleEffect

SpecLayers == InitLayers /\ [][NextLayers]_vars

Asked(geometry, morphFactor) == [geometry |-> geometry, morphFactor |-> morphFactor]

InitGlyphs ==
  /\ InitEngine
  /\ layers = NoLayers
  /\ glyphs = NoGlyphs
  /\ maplibre = NoMapLibre
  /\ pairing = NoPairing

\* createLeafletGlyphLayer({morpher, L, geometry, morphFactor, drawGlyph,
\* filterFeature}) up to its first suspension
CreateGlyphLayerStart(geometry, morphFactor, outcomes) ==
  /\ glyphs.pc = "none"
  /\ IF isPrepared(state)
     THEN /\ glyphs' = BuildGlyphLayer(
                         [glyphs EXCEPT !.currentGeometry = geometry,
                                        !.currentMorphFactor = morphFactor,
                                        !.asked = Asked(geometry, morphFactor)],
                         state, strict, outcomes)
          /\ UNCHANGED <<calls, loaderCalls>>
     ELSE /\ outcomes = AllDrawn
          /\ \E c \in CallIds :
               /\ StartCall(c)
               /\ glyphs' = [glyphs EXCEPT !.pc = "awaiting", !.call = c,
                                           !.currentGeometry = geometry,
                                           !.currentMorphFactor = morphFactor,
                                           !.asked = Asked(geometry, morphFactor)]
  /\ UNCHANGED <<cfg, data, cached, state, commits, held, strict, wrapper, assigns,
                 mutations, grid, layers,
                 maplibre, pairing>>

\* createLeafletGlyphLayer after `await morpher.prepare()`
CreateGlyphLayerFinish(outcomes) ==
  /\ glyphs.pc = "awaiting"
  /\ calls[glyphs.call].pc \in {"resolved", "rejected"}
  /\ glyphs' = IF calls[glyphs.call].pc = "rejected"
               THEN [glyphs EXCEPT !.pc = "rejected"]
               ELSE BuildGlyphLayer(glyphs, state, strict, outcomes)
  /\ UNCHANGED <<cfg, data, cached, state, calls, loaderCalls, commits, held,
                 strict, wrapper, assigns, mutations, grid, layers,
                 maplibre, pairing>>

\* the page calls updateGlyphs({geometry, morphFactor})
UpdateGlyphs(nextGeometry, nextMorph, outcomes) ==
  /\ glyphs.pc = "ready"
  /\ glyphs' = [updateGlyphs(glyphs, state, strict, nextGeometry, nextMorph,
                             outcomes)
                  EXCEPT !.asked = Asked(
                    IF nextGeometry = Undefined THEN @.geometry ELSE nextGeometry,
                    IF nextMorph = UndefinedFactor THEN @.morphFactor
                    ELSE nextMorph)]
  /\ UNCHANGED <<cfg, data, cached, state, calls, loaderCalls, commits, held,
                 strict, wrapper, assigns, mutations, grid, layers,
                 maplibre, pairing>>

\* the page calls clear()
ClearGlyphs ==
  /\ glyphs.pc = "ready"
  /\ glyphs' = clear(glyphs)
  /\ UNCHANGED <<cfg, data, cached, state, calls, loaderCalls, commits, held,
                 strict, wrapper, assigns, mutations, grid, layers,
                 maplibre, pairing>>

\* A page that prepares an engine (or leaves that to the helper), creates
\* the glyph layer once, then updates and clears it.
NextGlyphs ==
  \/ PrepareStart(1)
  \/ \E c \in CallIds : PrepareFinish(c)
  \/ \E geometry \in GlyphGeometries, morphFactor \in GlyphFactors,
        outcomes \in GlyphOutcomes :
       CreateGlyphLayerStart(geometry, morphFactor, outcomes)
  \/ \E outcomes \in GlyphOutcomes : CreateGlyphLayerFinish(outcomes)
  \/ \E nextGeometry \in GlyphGeometries \cup {Undefined},
        nextMorph \in GlyphFactors \cup {UndefinedFactor},
        outcomes \in GlyphOutcomes :
       UpdateGlyphs(nextGeometry, nextMorph, outcomes)
  \/ ClearGlyphs

SpecGlyphs == InitGlyphs /\ [][NextGlyphs]_vars

\* the page: the map's style with its paint, and the basemapEffect options
\* it will pass
InitMapLibre ==
  /\ InitEngine
  /\ layers = NoLayers
  /\ glyphs = NoGlyphs
  /\ pairing = NoPairing
  /\ \E effect \in MapEffects, paint \in MapPaints :
       maplibre = [NoMapLibre EXCEPT !.effect = effect, !.paint = paint,
                                     !.initial = paint]

\* createMapLibreMorphLayers({morpher, map, morphFactor, basemapEffect}) up
\* to its first suspension
CreateMapLayersStart(morphFactor) ==
  /\ maplibre.pc = "none"
  /\ IF isPrepared(state)
     THEN /\ maplibre' = BuildMapLayers(maplibre, state, morphFactor, strict)
          /\ UNCHANGED <<calls, loaderCalls>>
     ELSE /\ \E c \in CallIds :
               /\ StartCall(c)
               /\ maplibre' = [maplibre EXCEPT !.pc = "awaiting", !.call = c,
                                               !.currentMorphFactor = morphFactor]
  /\ UNCHANGED <<cfg, data, cached, state, commits, held, strict, wrapper, assigns,
                 mutations, grid, layers, glyphs, pairing>>

\* createMapLibreMorphLayers after `await morpher.prepare()`
CreateMapLayersFinish ==
  /\ maplibre.pc = "awaiting"
  /\ calls[maplibre.call].pc \in {"resolved", "rejected"}
  /\ maplibre' = IF calls[maplibre.call].pc = "rejected"
                 THEN [maplibre EXCEPT !.pc = "rejected"]
                 ELSE BuildMapLayers(maplibre, state, maplibre.currentMorphFactor,
                                     strict)
  /\ UNCHANGED <<cfg, data, cached, state, calls, loaderCalls, commits, held,
                 strict, wrapper, assigns, mutations, grid, layers, glyphs, pairing>>

\* the page calls updateMorphFactor(nextFactor) of the controller
UpdateMapFactor(nextFactor) ==
  /\ maplibre.pc = "ready"
  /\ maplibre' = updateMapMorphFactor(maplibre, state, nextFactor, strict)
  /\ UNCHANGED <<cfg, data, cached, state, calls, loaderCalls, commits, held,
                 strict, wrapper, assigns, mutations, grid, layers, glyphs, pairing>>

\* the page calls applyBasemapEffect(factor) of the controller
ApplyMapEffect(factor) ==
  /\ maplibre.pc = "ready"
  /\ maplibre' = apply(maplibre, factor)
  /\ UNCHANGED <<cfg, data, cached, state, calls, loaderCalls, commits, held,
                 strict, wrapper, assigns, mutations, grid, layers, glyphs, pairing>>

\* the page flips the flag its isEnabled function reads
ToggleMapEffect ==
  /\ maplibre.effect.isEnabled = "function"
  /\ maplibre.pc \in {"none", "ready"}
  /\ maplibre' = [maplibre EXCEPT !.enabledFlag = ~@]
  /\ UNCHANGED <<cfg, data, cached, state, calls, loaderCalls, commits, held,
                 strict, wrapper, assigns, mutations, grid, layers, glyphs, pairing>>

\* the page calls remove() of the controller
RemoveMapLayers ==
  /\ maplibre.pc = "ready"
  /\ maplibre' = remove(maplibre)
  /\ UNCHANGED <<cfg, data, cached, state, calls, loaderCalls, commits, held,
                 strict, wrapper, assigns, mutations, grid, layers, glyphs, pairing>>

\* A page that creates the MapLibre layers once, moves the factor, applies
\* the effect, toggles it and removes the layers.
NextMapLibre ==
  \/ PrepareStart(1)
  \/ \E c \in CallIds : PrepareFinish(c)
  \/ \E morphFactor \in MapFactors : CreateMapLayersStart(morphFactor)
  \/ CreateMapLayersFinish
  \/ \E nextFactor \in MapFactors \cup {NaNFactor} : UpdateMapFactor(nextFactor)
  \/ \E factor \in MapFactors : ApplyMapEffect(factor)
  \/ ToggleMapEffect
  \/ RemoveMapLayers

SpecMapLibre == InitMapLibre /\ [][NextMapLibre]_vars

\* ----------------------------------------------------- ring pairing
\* most rings of the longer of the two lists handed to matchRingPairs
MaxRings == 3

\* a closed triangle at [x, y]
Triangle(x, y) == << <<x, y>>, <<x + 3, y>>, <<x, y + 3>>, <<x, y>> >>

\* the rings explored: the second and the third are at the same distance
\* from the first
RingPool == {Triangle(0, 0), Triangle(10, 0), Triangle(-10, 0)}

RingLists(n) == UNION {[1..k -> RingPool] : k \in 0..n}

InitPairing ==
  /\ cfg = Setup(RegularSquares, CartogramBoth, "wgs84", FALSE, NullData).cfg
  /\ data = NullData
  /\ cached = <<>>
  /\ state = InitialState
  /\ calls = [c \in CallIds |-> IdleCall]
  /\ loaderCalls = 0
  /\ commits = 0
  /\ held = NoHeld
  /\ strict = FALSE
  /\ wrapper = NoWrapper
  /\ assigns = 0
  /\ mutations = 0
  /\ grid = NoGrid
  /\ layers = NoLayers
  /\ glyphs = NoGlyphs
  /\ maplibre = NoMapLibre
  /\ \E fromRings \in RingLists(MaxRings - 1), toRings \in RingLists(MaxRings) :
       pairing = [NoPairing EXCEPT !.pc = "ready", !.fromRings = fromRings,
                                   !.toRings = toRings]

\* const pairs = matchRingPairs(fromRings, toRings)
MatchRings ==
  /\ pairing.pc = "ready"
  /\ pairing' = [pairing EXCEPT
                   !.pc = "matched",
                   !.pairs = matchRingPairs(pairing.fromRings, pairing.toRings)]
  /\ UNCHANGED <<cfg, data, cached, state, calls, loaderCalls, commits, held, strict,
                 wrapper, assigns, mutations, grid, layers, glyphs, maplibre>>

\* the ring interpolators of the pairs and the interpolator made of them
MakeInterpolator ==
  /\ pairing.pc = "matched"
  /\ pairing' = [pairing EXCEPT
                   !.pc = "built",
                   !.interpolator =
                      InterpolatorOfMade("MultiPolygon", "MultiPolygon",
                                         MapRingInterpolators(pairing.pairs))]
  /\ UNCHANGED <<cfg, data, cached, state, calls, loaderCalls, commits, held, strict,
                 wrapper, assigns, mutations, grid, layers, glyphs, maplibre>>

\* matchRingPairs applied to two lists of rings, as createGeometryInterpolator
\* applies it.
NextPairing ==
  \/ MatchRings
  \/ MakeInterpolator

SpecPairing == InitPairing /\ [][NextPairing]_vars

\* ------------------------------------------------------------------ claims
\* the fields of the instance
EngineVars == <<cfg, data, cached, state, calls, loaderCalls>>

\* the caller holds a collection returned by the current prepared state
HeldCollection ==
  /\ held.acc = "getInterpolatedFeatureCollection"
  /\ isPrepared(state)
  /\ held.epoch = commits

HeldFeatures == held.result.value[1].features

\* C1: before the first successful prepare() (also while a prepare() call
\* waits for the loader) every accessor throws the "prepare() must be
\* called" error, the call leaves the instance unchanged, and isPrepared()
\* is false.
C1_AccessorsThrowBeforePrepare ==
  /\ [](commits = 0 =>
          /\ ~isPrepared(state)
          /\ \A acc \in Accessors, factor \in Factors :
               AccessorResult(acc, factor, state, strict) = NotPrepared)
  /\ [][(commits = 0 /\ held' # held) =>
          (held'.result = NotPrepared /\ UNCHANGED EngineVars)]_vars

C1_Witness ==
  /\ commits = 0
  /\ held.acc = "getInterpolatedLookup"
  /\ held.result = NotPrepared
  /\ \E c \in CallIds : calls[c].pc = "loading"

\* C2: after one prepare(), whatever the caller does to the values the
\* accessors returned, a later call of the same accessor with the same
\* argument returns a value equal to the one the first call returned.
C2_DefensiveCopies ==
  (held.acc # "none" /\ held.result.status = "ok" /\ held.epoch = commits)
    => AccessorResult(held.acc, held.factor, state, strict) = held.result

\* C3: a prepare() call that throws leaves this.state exactly as it was: an
\* unprepared engine stays unprepared and a prepared one keeps the state of
\* the earlier successful prepare().
C3_PrepareTransactional ==
  [][(\E c \in CallIds : /\ calls[c].pc \in {"loading", "loaded"}
                         /\ calls'[c].pc = "rejected")
       => /\ state' = state
          /\ isPrepared(state') = isPrepared(state)
          /\ \A acc \in Accessors :
               AccessorResult(acc, DefaultFactor, state', strict')
                 = AccessorResult(acc, DefaultFactor, state, strict)]_vars

C3_Witness ==
  /\ cfg.regularGeoJSON = RegularEmptyRing
  /\ ~cfg.hasLoader
  /\ calls[1].pc = "resolved"
  /\ calls[2].pc = "rejected"
  /\ isPrepared(state)
  /\ Len(state.interpolators) = 2

\* C4: with two regular square regions and a cartogram that holds only the
\* first, the interpolated collection has both regions at every factor
\* below 1 - epsilon and only the first region at factor 1.
C4_DisappearingRegion ==
  (/\ cfg.regularGeoJSON = RegularSquares
   /\ cfg.cartogramGeoJSON = CartogramOnlyA
   /\ HeldCollection
   /\ mutations = 0)
    => /\ held.result.status = "ok"
       /\ clampFactor(held.factor) < FactorOne - RING_VISIBILITY_EPSILON
            => Len(HeldFeatures) = 2
       /\ clampFactor(held.factor) = FactorOne
            => /\ Len(HeldFeatures) = 1
               /\ HeldFeatures[1].properties.code = "A"

\* C5: every feature of an interpolated collection has at least one ring,
\* every ring is closed and has at least 4 positions; a region without a
\* surviving ring is left out of the collection.
C5_NoDegenerateFeature ==
  HeldCollection
    => /\ held.result.status = "ok"
       /\ \A i \in 1..Len(HeldFeatures) :
            LET polys == HeldFeatures[i].geometry.polys
            IN /\ Len(polys) >= 1
               /\ \A p \in 1..Len(polys) :
                    /\ Len(polys[p]) >= 1
                    /\ \A r \in 1..Len(polys[p]) :
                         /\ Len(polys[p][r]) >= 4
                         /\ polys[p][r][1] = polys[p][r][Len(polys[p][r])]

\* the vertices of a ring; a ring compared up to closure and repeated
\* vertices is compared by its set of vertices
RingVertices(ring) == {ring[i] : i \in 1..Len(ring)}

RingSet(rings) == {RingVertices(rings[i]) : i \in 1..Len(rings)}

\* the rings the interpolator of a region emits at a factor
EmittedRings(code, factor) ==
  IF ~HasEntry(state.interpolators, code) THEN {}
  ELSE LET coordinates == GeometryInterpolate(GetEntry(state.interpolators, code), factor)
       IN {RingVertices(coordinates.polys[p][1]) : p \in 1..coordinates.length}

RegularRings(code) ==
  extractOuterRings(GetEntry(state.geographyLookup, code).geometry)

CartogramRings(code) ==
  extractOuterRings(GetEntry(state.cartogramLookup, code).geometry)

ReproducesEndpoints(code) ==
  /\ EmittedRings(code, 0) = RingSet(RegularRings(code))
  /\ EmittedRings(code, FactorOne) = RingSet(CartogramRings(code))

AllRingsValid(rings) == \A i \in 1..Len(rings) : Len(rings[i]) >= 4

C7_ClampedResult ==
  (HeldCollection /\ mutations = 0)
    => held.result = getInterpolatedFeatureCollection(state, clampFactor(held.factor), strict)

FreshRows == IF data.kind = "array" THEN data ELSE EmptyRows

\* C9: the state assigned by a successful prepare() is the state a freshly
\* constructed engine with the instance's current configuration fields
\* would produce.
C9_RebuildFromScratch ==
  [][\A c \in CallIds :
       (/\ calls[c].pc = "loaded"
        /\ calls'[c].pc = "resolved"
        /\ data.kind = "array" \/ ~cfg.hasLoader
        /\ calls[c].modelData = FreshRows)
         => state' = PrepareBody(FreshRows, cfg, <<>>, strict).state]_vars

EnrichedWithRows == isPrepared(state) /\ data.kind = "array" /\ Len(data.rows) > 0

\* the row list has a group for the join key
HasGroup(rows, code) == code # "" /\ \E i \in 1..Len(rows) : rows[i].lsoa = code

\* the group of the join key has a value that is not null, undefined or ""
HasValue(rows, code) ==
  \E i \in 1..Len(rows) : rows[i].lsoa = code /\ rows[i].population # <<>>

RECURSIVE GroupSum(_, _)
\* the sum of the column over the rows of a join key, non-numeric values
\* counted as 0
GroupSum(rows, code) ==
  IF rows = <<>> THEN 0
  ELSE (IF Head(rows).lsoa = code /\ Head(rows).population # <<>>
           /\ Head(rows).population # <<NonNumeric>>
        THEN Head(rows).population[1] ELSE 0)
       + GroupSum(Tail(rows), code)

\* every feature that a row group joins carries the sum of the group
CarriesSums(features, rows) ==
  \A i \in 1..Len(features) :
    HasGroup(rows, features[i].properties.code)
      => features[i].properties.population
           = <<GroupSum(rows, features[i].properties.code), 1>>

\* as CarriesSums, for the groups with a non-empty value of the column
CarriesPresentSums(features, rows) ==
  \A i \in 1..Len(features) :
    (/\ HasGroup(rows, features[i].properties.code)
     /\ HasValue(rows, features[i].properties.code))
      => features[i].properties.population
           = <<GroupSum(rows, features[i].properties.code), 1>>

PopulationOf(features, code) ==
  features[LastIndexOfCode(features, code)].properties.population

\* C11 as stated: with `sum` configured, every feature of the prepared
\* collections whose join property equals the join key of a row group
\* carries the sum of the column over the rows of the group.
C11_SumRoundTrip ==
  (EnrichedWithRows /\ cfg.aggregation = "sum")
    => /\ CarriesSums(state.regularWGS84[1].features, data.rows)
       /\ CarriesSums(state.cartogramWGS84[1].features, data.rows)

\* C11 amended: with `sum` configured and the normalize option set to
\* false, every feature of the prepared collections whose join property
\* equals the join key of a row group with a non-empty value of the column
\* carries the sum of the column over the rows of the group; with normalize
\* left at its default true the rows A:1000, A:600, B:800 give A the value
\* 1 and B the value 0.
C11_SumWithoutNormalize ==
  (EnrichedWithRows /\ cfg.aggregation = "sum")
    => /\ ~cfg.normalize
            => /\ CarriesPresentSums(state.regularWGS84[1].features, data.rows)
               /\ CarriesPresentSums(state.cartogramWGS84[1].features, data.rows)
               /\ CarriesPresentSums(state.regularEnriched[1].features, data.rows)
               /\ CarriesPresentSums(state.cartogramEnriched[1].features, data.rows)
       /\ (cfg.normalize /\ data = Rows1)
            => /\ PopulationOf(state.regularWGS84[1].features, "A") = <<1, 1>>
               /\ PopulationOf(state.regularWGS84[1].features, "B") = <<0, 1>>

C11_Witness ==
  /\ EnrichedWithRows
  /\ cfg.aggregation = "sum"
  /\ ~cfg.normalize
  /\ data = Rows1
  /\ PopulationOf(state.regularWGS84[1].features, "A") = <<1600, 1>>
  /\ PopulationOf(state.cartogramWGS84[1].features, "B") = <<800, 1>>
  /\ held.acc = "getRegularFeatureCollection"
  /\ held.result.status = "ok"

\* the aggregated values of the row groups of the instance's rows
AggregatedOf == MapAggregate(groupByJoinColumn(<<>>, data.rows), cfg.aggregation)

\* the finite values of the column: all equal, and value i is the least
\* or the greatest of them
AllEqual(a) ==
  \A i, j \in 1..Len(a) :
    (IsFiniteNumber(a[i].value.population) /\ IsFiniteNumber(a[j].value.population))
      => a[i].value.population = a[j].value.population

IsLeast(a, i) ==
  \A j \in 1..Len(a) :
    IsFiniteNumber(a[j].value.population)
      => ~FractionLess(a[j].value.population, a[i].value.population)

IsGreatest(a, i) ==
  \A j \in 1..Len(a) :
    IsFiniteNumber(a[j].value.population)
      => ~FractionLess(a[i].value.population, a[j].value.population)

\* n is a normalized as the claim says
NormalizedWell(a, n) ==
  /\ Len(n) = Len(a)
  /\ \A i \in 1..Len(a) :
       /\ n[i].key = a[i].key
       /\ IF IsFiniteNumber(a[i].value.population)
          THEN /\ IsFiniteNumber(n[i].value.population)
               /\ n[i].value.population[1] >= 0
               /\ n[i].value.population[1] <= n[i].value.population[2]
               /\ AllEqual(a) => n[i].value.population = <<1, 2>>
               /\ (~AllEqual(a) /\ IsLeast(a, i)) => n[i].value.population = <<0, 1>>
               /\ (~AllEqual(a) /\ IsGreatest(a, i)) => n[i].value.population = <<1, 1>>
          ELSE n[i].value = a[i].value

\* the features joined by a group carry the group's value
CarriesValues(features, n) ==
  \A i \in 1..Len(features) :
    (/\ HasEntry(n, features[i].properties.code)
     /\ GetEntry(n, features[i].properties.code).population # <<>>)
      => features[i].properties.population
           = GetEntry(n, features[i].properties.code).population

customReducer(values) == <<Len(values) + 100, 1>>

\* the rows of a join key
GroupRows(rows, code) == SelectSeq(rows, LAMBDA item : item.lsoa = code)

\* every feature that a row group joins carries what the reducer returned
\* for the rows of the group
CarriesReduced(features, rows) ==
  \A i \in 1..Len(features) :
    HasGroup(rows, features[i].properties.code)
      => features[i].properties.population
           = customReducer(GroupRows(rows, features[i].properties.code))

\* C13: with a custom reducer function as the column's entry of the
\* aggregation spec (and normalization off), every feature that a row
\* group joins carries the reducer's return value for that group.
C13_CustomReducer ==
  (EnrichedWithRows /\ cfg.aggregation = "reducer" /\ ~cfg.normalize)
    => /\ CarriesReduced(state.regularEnriched[1].features, data.rows)
       /\ CarriesReduced(state.cartogramEnriched[1].features, data.rows)

\* the join properties of a list of features, in order
CodesOf(features) == [i \in 1..Len(features) |-> features[i].properties.code]

\* the properties and geometry a feature was given, without the centroid
\* prepare() attaches
Plain(features) ==
  [i \in 1..Len(features) |->
     [type |-> features[i].type, properties |-> features[i].properties,
      geometry |-> features[i].geometry]]

\* a feature that no row group joins has the properties of its input
UnmatchedKept(features, input, rows) ==
  \A i \in 1..Len(features) :
    ~HasGroup(rows, input[i].properties.code)
      => features[i].properties = input[i].properties

\* the features of an accessor's collection against the input collection
SameFeatures(features, input, rows) ==
  /\ Len(features) = Len(input)
  /\ CodesOf(features) = CodesOf(input)
  /\ \A i \in 1..Len(input) : features[i].geometry = input[i].geometry
  /\ UnmatchedKept(features, input, rows)

\* C14: the collections returned after prepare() have the features of the
\* inputs, as many and in the same order; with an empty or absent row list
\* the enriched collections are the inputs; a feature whose join value
\* matches no row group keeps exactly its original properties.
C14_EnrichmentKeepsFeatures ==
  isPrepared(state)
    => /\ SameFeatures(getRegularFeatureCollection(state).value[1].features,
                       cfg.regularGeoJSON.features, data.rows)
       /\ SameFeatures(getCartogramFeatureCollection(state).value[1].features,
                       cfg.cartogramGeoJSON.fc.features, data.rows)
       /\ (data.kind # "array" \/ Len(data.rows) = 0)
            => /\ state.regularEnriched[1] = cfg.regularGeoJSON
               /\ state.cartogramEnriched[1] = cfg.cartogramGeoJSON.fc
               /\ Plain(state.regularWGS84[1].features) = cfg.regularGeoJSON.features
       /\ (held.acc = "getRegularFeatureCollection" /\ held.result.status = "ok")
            => CodesOf(held.result.value[1].features)
                 = CodesOf(cfg.regularGeoJSON.features)

C14_Witness ==
  /\ isPrepared(state)
  /\ data = Rows6
  /\ cfg.aggregation = "sum"
  /\ ~cfg.normalize
  /\ held.acc = "getCartogramFeatureCollection"
  /\ held.result.status = "ok"
  /\ CodesOf(held.result.value[1].features) = <<"B", "A", "Z">>
  /\ PopulationOf(held.result.value[1].features, "B") = <<300, 1>>
  /\ PopulationOf(held.result.value[1].features, "Z") = <<9, 1>>

\* the input of the call is one of the three shapes handed to the grid
\* builder
RoutedToGrid(input) ==
  \/ input.kind = "rows" /\ Len(input.records) > 0 /\ input.records[1].object
  \/ input.kind = "text" /\ Len(input.records) > 0
  \/ input.kind = "wrapper"

\* C15: normalizeCartogramInput returns a GeoJSON input as a copy that
\* equals it and shares nothing with it (what the caller does to the input
\* afterwards leaves the result as it was), hands a non-empty array of row
\* objects, a text with at least one record and an object with a `records`
\* array to the grid builder, and throws without output for every other
\* input.
C15_FourInputShapes ==
  /\ [](grid.pc = "done" =>
          /\ grid.input.kind = "geojson"
               => /\ grid.result.status = "ok"
                  /\ ~grid.result.alias
                  /\ ~grid.touched => grid.result.fc = grid.input.fc
          /\ RoutedToGrid(grid.input)
               => /\ grid.result
                       = createGridCartogramFeatureCollection(
                           grid.input.records, grid.regular, grid.options)
                  /\ grid.result.status = "ok"
                       => Len(grid.result.fc.features) = Len(grid.input.records)
          /\ (grid.input.kind # "geojson" /\ ~RoutedToGrid(grid.input))
               => grid.result = GridThrows
          /\ grid.result.status = "throw" => grid.result.fc = NoOutput)
  /\ [][(grid.pc = "done" /\ grid'.touched /\ ~grid.touched)
          => (grid'.result = grid.result /\ grid'.input # grid.input)]_vars

C15_Witness ==
  /\ grid.pc = "done"
  /\ grid.input.kind = "geojson"
  /\ grid.touched
  /\ grid.result.status = "ok"
  /\ grid.result.fc = CartogramBoth.fc
  /\ Len(grid.input.fc.features) = 1

\* the box of a cell of the result: its least and greatest x and y
CellBox(feature) ==
  LET ring == feature.geometry.polys[1][1]
  IN [xlo |-> IF FractionLess(ring[3][1], ring[1][1]) THEN ring[3][1] ELSE ring[1][1],
      xhi |-> IF FractionLess(ring[3][1], ring[1][1]) THEN ring[1][1] ELSE ring[3][1],
      ylo |-> IF FractionLess(ring[3][2], ring[1][2]) THEN ring[3][2] ELSE ring[1][2],
      yhi |-> IF FractionLess(ring[3][2], ring[1][2]) THEN ring[1][2] ELSE ring[3][2]]

\* the interiors of two boxes have a point in common
Overlap(a, b) ==
  /\ FractionLess(a.xlo, b.xhi) /\ FractionLess(b.xlo, a.xhi)
  /\ FractionLess(a.ylo, b.yhi) /\ FractionLess(b.ylo, a.yhi)

\* a gap separates two boxes along one axis
Apart(a, b) ==
  \/ FractionLess(a.xhi, b.xlo) \/ FractionLess(b.xhi, a.xlo)
  \/ FractionLess(a.yhi, b.ylo) \/ FractionLess(b.yhi, a.ylo)

\* the box lies in the rectangle spanned by the extent
Within(a, box) ==
  /\ ~FractionLess(a.xlo, <<Min2(box[1], box[3]), 1>>)
  /\ ~FractionLess(<<Max2(box[1], box[3]), 1>>, a.xhi)
  /\ ~FractionLess(a.ylo, <<Min2(box[2], box[4]), 1>>)
  /\ ~FractionLess(<<Max2(box[2], box[4]), 1>>, a.yhi)

\* the extent the grid builder resolved for the call
ResolvedExtent == ensureExtent(grid.options.extent, grid.regular).box

\* a grid was built from records at distinct (row, col) with a padding > 0
CellsBuilt ==
  /\ grid.pc = "done"
  /\ grid.input \in CellInputs
  /\ grid.result.status = "ok"
  /\ grid.options.cellPadding # NonNumeric
  /\ grid.options.cellPadding > 0

\* the cells of the result, pairwise and against the extent
CellsDisjointWithin(features, box) ==
  /\ \A i \in 1..Len(features) : Within(CellBox(features[i]), box)
  /\ \A i, j \in 1..Len(features) :
       i # j => /\ ~Overlap(CellBox(features[i]), CellBox(features[j]))
                /\ (box[1] # box[3] /\ box[2] # box[4])
                     => Apart(CellBox(features[i]), CellBox(features[j]))

\* C16: in a grid built from records with distinct integer (row, col), for
\* every extent, every cellPadding > 0 and the four orientations, the cells
\* of two records do not overlap (a gap separates them when the extent has
\* an area) and every cell lies within the extent; every cell is a closed
\* ring of 5 positions.
C16_CellsDisjointWithinExtent ==
  CellsBuilt
    => /\ Len(grid.result.fc.features) = Len(grid.input.records)
       /\ \A i \in 1..Len(grid.result.fc.features) :
            LET ring == grid.result.fc.features[i].geometry.polys[1][1]
            IN Len(ring) = 5 /\ ring[1] = ring[5]
       /\ CellsDisjointWithin(grid.result.fc.features, ResolvedExtent)

C16_Witness ==
  /\ CellsBuilt
  /\ grid.options.extent = <<0, 0, 90, 60>>
  /\ grid.options.cellPadding = 8
  /\ grid.options.rowOrientation = "bottom"
  /\ grid.options.colOrientation = "right"
  /\ grid.input.records = <<CellRecord("A", 0, 0), CellRecord("B", 0, 1)>>
  /\ CellBox(grid.result.fc.features[1]).xhi = <<441, 5>>
  /\ CellBox(grid.result.fc.features[2]).xhi = <<216, 5>>

\* the value of a row or col field is a number or a numeric string
NumericField(raw) == raw.kind = "number"

\* C17: the grid builder throws, and returns no features, when the record
\* set is empty, when a row or col value of a record is not a number or a
\* numeric string (a missing, null or empty field among them), or when no
\* extent of four finite numbers can be resolved.
C17_GridFailsFast ==
  (/\ grid.pc = "done"
   /\ RoutedToGrid(grid.input)
   /\ \/ Len(grid.input.records) = 0
      \/ \E i \in 1..Len(grid.input.records) :
           \/ ~NumericField(grid.input.records[i].row)
           \/ ~NumericField(grid.input.records[i].col)
      \/ ensureExtent(grid.options.extent, grid.regular).status = "throw")
    => grid.result = GridThrows

\* the join keys of the features of a collection
KeySet(features) == {features[i].properties.code : i \in 1..Len(features)}

\* the features of an interpolated collection against the two geographies
\* the engine was prepared from
RegularKeysOnly(features, regular, cartogram) ==
  /\ KeySet(features) \subseteq KeySet(regular) \ {""}
  /\ \A i, j \in 1..Len(features) :
       features[i].properties.code = features[j].properties.code => i = j
  /\ \A code \in KeySet(cartogram) \ KeySet(regular) : code \notin KeySet(features)

\* C18: at every factor the region keys of the interpolated collection are
\* keys of the regular geography, each at most once, and a region that only
\* the cartogram has never appears; the same holds for the collections the
\* caller was handed.
C18_RegularKeysOnly ==
  isPrepared(state)
    => /\ \A factor \in Factors :
            getInterpolatedFeatureCollection(state, factor, strict).status = "ok"
              => RegularKeysOnly(
                   getInterpolatedFeatureCollection(state, factor, strict).value[1].features,
                   cfg.regularGeoJSON.features, cfg.cartogramGeoJSON.fc.features)
       /\ (HeldCollection /\ held.result.status = "ok")
            => RegularKeysOnly(HeldFeatures, cfg.regularGeoJSON.features,
                               cfg.cartogramGeoJSON.fc.features)

C18_Witness ==
  /\ HeldCollection
  /\ held.result.status = "ok"
  /\ held.factor = FactorOne
  /\ cfg.regularGeoJSON = RegularDuplicate
  /\ cfg.cartogramGeoJSON = CartogramMulti
  /\ HasEntry(state.cartogramLookup, "C")
  /\ KeySet(HeldFeatures) = {"A", "B"}
  /\ Len(HeldFeatures) = 2

\* the styles the effect gives, at a factor, to an element that had the
\* styles lay.initial before the helper touched it
StylesFor(lay, factor, enabled) ==
  IF ~enabled THEN lay.initial
  ELSE EffectStyle(effectOptions(lay.options), lay.initial, lay.initial, factor)

TweenFor(factor) == getInterpolatedFeatureCollection(state, factor, strict)

\* C19: after creation and after every updateMorphFactor call the basemap
\* element's filter and opacity are a function of the factor of the latest
\* call, of what isEnabled() gave then and of the styles the element had
\* before the effect (exactly those styles when isEnabled() gave false, and
\* the same styles whether or not the effect was disabled in between), and
\* the tween layer holds the features of the collection for the latest
\* factor.
C19_BasemapEffect ==
  layers.pc = "ready" =>
    /\ layers.options.hasEffect =>
         layers.element = StylesFor(layers, layers.requested, layers.enabledThen)
    /\ TweenFor(layers.requested).status = "ok"
    /\ layers.tween = TweenFor(layers.requested).value[1].features

\* the same statement for the calls that returned
BasemapEffectWhenReturned ==
  (layers.pc = "ready" /\ layers.outcome = "returned") => C19_BasemapEffect

\* C20: once the glyph layer exists, getState().markerCount is the number
\* of markers in the layer group and, after an updateGlyphs call that
\* returned, the featureCount of that call; no feature id has two markers;
\* getState() reports the geometry and morph factor asked for last; after
\* clear() there is no marker and the layer group is empty.
C20_GlyphCounts ==
  glyphs.pc = "ready" =>
    /\ getState(glyphs).markerCount = Cardinality(glyphs.group)
    /\ (glyphs.last.status = "returned" /\ ~glyphs.cleared) =>
         getState(glyphs).markerCount = glyphs.last.featureCount
    /\ \A i, j \in 1..Len(glyphs.markers) :
         glyphs.markers[i].key = glyphs.markers[j].key => i = j
    /\ getState(glyphs).geometry = glyphs.asked.geometry
    /\ getState(glyphs).morphFactor = glyphs.asked.morphFactor
    /\ glyphs.cleared =>
         getState(glyphs).markerCount = 0 /\ glyphs.group = {}

\* the same statement without the featureCount of the call
GlyphMarkersInStep ==
  glyphs.pc = "ready" =>
    /\ getState(glyphs).markerCount = Cardinality(glyphs.group)
    /\ MarkerIds(glyphs) = glyphs.group
    /\ \A i, j \in 1..Len(glyphs.markers) :
         glyphs.markers[i].key = glyphs.markers[j].key => i = j
    /\ getState(glyphs).geometry = glyphs.asked.geometry
    /\ getState(glyphs).morphFactor = glyphs.asked.morphFactor
    /\ glyphs.cleared =>
         getState(glyphs).markerCount = 0 /\ glyphs.group = {}

\* the controller's latest call was remove(), or an apply that found the
\* effect disabled while resetOnDisable is not false
EffectUndone ==
  /\ maplibre.effect.hasEffect
  /\ \/ maplibre.lastOp = "remove"
     \/ /\ maplibre.lastOp = "apply"
        /\ ~maplibre.enabledThen
        /\ maplibre.effect.resetOnDisable

\* every captured original is the value the property had before the effect
CapturedBeforeModifying ==
  \A key \in PaintKeys :
    maplibre.originals[key].has =>
      maplibre.originals[key].value = maplibre.initial[key]

\* C21: the MapLibre basemap effect captures the original of each (layer,
\* paint property) once, before it first modifies it, and after remove() or
\* a disabled apply with resetOnDisable every modified paint property holds
\* its pre-effect value again, the originally unset ones included.
C21_OriginalsRestored ==
  /\ CapturedBeforeModifying
  /\ EffectUndone =>
       \A key \in maplibre.modified : maplibre.paint[key] = maplibre.initial[key]

\* what holds of C21: originals are captured before the first write, and
\* the properties that were set before the effect are restored
SetOriginalsRestored ==
  /\ CapturedBeforeModifying
  /\ EffectUndone =>
       \A key \in maplibre.modified :
         maplibre.initial[key] # Unset => maplibre.paint[key] = maplibre.initial[key]

\* the closed ring a ring interpolator gives at a factor
EntryRing(entry, factor) == ensureClosedRing(RingInterpolate(entry, clampFactor(factor)))

\* the ring of the entry is among the rings emitted for the region
RingIncluded(code, entry, factor) ==
  RingVertices(EntryRing(entry, factor)) \in EmittedRings(code, factor)

\* the factors at which the claim has a ring in the output
ShownAsClaimed(entry, factor) ==
  IF entry.mode = "fromOnly" THEN clampFactor(factor) <= FactorOne - RING_VISIBILITY_EPSILON
  ELSE IF entry.mode = "toOnly" THEN clampFactor(factor) >= RING_VISIBILITY_EPSILON
  ELSE TRUE

\* the same with the two boundary factors on the hidden side
ShownStrictly(entry, factor) ==
  IF entry.mode = "fromOnly" THEN clampFactor(factor) < FactorOne - RING_VISIBILITY_EPSILON
  ELSE IF entry.mode = "toOnly" THEN clampFactor(factor) > RING_VISIBILITY_EPSILON
  ELSE TRUE

\* the rings of the entries shown, in the order of the entries
ShownRings(entries, factor) ==
  [i \in 1..Len(SelectSeq(entries, LAMBDA e : ShownStrictly(e, factor))) |->
     EntryRing(SelectSeq(entries, LAMBDA e : ShownStrictly(e, factor))[i], factor)]

\* every ring interpolator of the region gives a ring of at least 4
\* positions at the factor
AllEntriesValid(entries, factor) ==
  \A j \in 1..Len(entries) : Len(EntryRing(entries[j], factor)) >= 4

Occurrences(rings, ring) == Cardinality({i \in 1..Len(rings) : rings[i] = ring})

\* the sides of the pairs that are present, in the order of the pairs
FromSides(pairs) ==
  [i \in 1..Len(SelectSeq(pairs, LAMBDA p : p.fromRing # <<>>)) |->
     SelectSeq(pairs, LAMBDA p : p.fromRing # <<>>)[i].fromRing[1]]

ToSides(pairs) ==
  [i \in 1..Len(SelectSeq(pairs, LAMBDA p : p.toRing # <<>>)) |->
     SelectSeq(pairs, LAMBDA p : p.toRing # <<>>)[i].toRing[1]]

FullPairs(pairs) == SelectSeq(pairs, LAMBDA p : p.fromRing # <<>> /\ p.toRing # <<>>)

RemoveFirst(rings, ring) ==
  IF \E i \in 1..Len(rings) : rings[i] = ring
  THEN RemoveAt(rings, CHOOSE i \in 1..Len(rings) :
                         rings[i] = ring /\ \A j \in 1..(i - 1) : rings[j] # ring)
  ELSE rings

RECURSIVE Unclaimed(_, _, _)
\* the toRings no pair before the k-th has claimed, in their original order
Unclaimed(toRings, pairs, k) ==
  IF k <= 1 THEN toRings
  ELSE IF pairs[k - 1].toRing = <<>> THEN Unclaimed(toRings, pairs, k - 1)
  ELSE RemoveFirst(Unclaimed(toRings, pairs, k - 1), pairs[k - 1].toRing[1])

\* position j of the pool is the earliest one at the smallest squared
\* distance from the centroid of the ring
EarliestNearest(ring, pool, j) ==
  /\ \A i \in 1..Len(pool) :
       ~DistanceLess(computeRingCentroid(ring), computeRingCentroid(pool[i]),
                     computeRingCentroid(pool[j]))
  /\ \A i \in 1..(j - 1) :
       DistanceLess(computeRingCentroid(ring), computeRingCentroid(pool[j]),
                    computeRingCentroid(pool[i]))

CartogramGeometry(code) ==
  IF HasEntry(state.cartogramLookup, code)
  THEN GetEntry(state.cartogramLookup, code).geometry
  ELSE NoGeometry

\* the type the claim gives the region: Polygon for exactly one ring pair
\* when neither source geometry is a MultiPolygon
TypeAtBuild(code) ==
  IF /\ Len(matchRingPairs(RegularRings(code),
                           extractOuterRings(CartogramGeometry(code)))) = 1
     /\ GetEntry(state.geographyLookup, code).geometry.type # "MultiPolygon"
     /\ CartogramGeometry(code).type # "MultiPolygon"
  THEN "Polygon" ELSE "MultiPolygon"

\* coordinates nested as the type asks: one ring for a Polygon, polygons
\* of one ring each for a MultiPolygon
NestedAs(geometry) ==
  /\ \A p \in 1..Len(geometry.polys) : Len(geometry.polys[p]) = 1
  /\ geometry.type = "Polygon" => Len(geometry.polys) = 1

\* C25: the geometry type of a region is decided when its interpolator is
\* built, Polygon for exactly one ring pair and no MultiPolygon source,
\* else MultiPolygon, and every feature emitted for the region at any
\* factor has that type, with coordinates nested to match it.
C25_TypeDecidedAtBuild ==
  (HeldCollection /\ held.result.status = "ok" /\ mutations = 0) =>
    \A i \in 1..Len(HeldFeatures) :
      /\ HeldFeatures[i].geometry.type = TypeAtBuild(HeldFeatures[i].properties.code)
      /\ HeldFeatures[i].geometry.type
           = GetEntry(state.interpolators, HeldFeatures[i].properties.code).type
      /\ NestedAs(HeldFeatures[i].geometry)

\* a collection was read that holds a region that is a Polygon in the
\* regular geography and is emitted as a MultiPolygon of two polygons
C25_Witness ==
  /\ HeldCollection
  /\ held.result.status = "ok"
  /\ mutations = 0
  /\ \E i \in 1..Len(HeldFeatures) :
       /\ HeldFeatures[i].geometry.type = "MultiPolygon"
       /\ Len(HeldFeatures[i].geometry.polys) = 2
       /\ GetEntry(state.geographyLookup, HeldFeatures[i].properties.code).geometry.type
            = "Polygon"

\* the outer rings of a geometry as the caller gave them
GivenRings(geometry) ==
  [p \in 1..Len(SelectSeq(geometry.polys, LAMBDA polygon : Len(polygon) > 0)) |->
     SelectSeq(geometry.polys, LAMBDA polygon : Len(polygon) > 0)[p][1]]

\* the number of vertices of a ring, the closing position not counted
VertexCount(ring) == Len(FlubberOpen(ring))

\* one of the two geometries of the region has a ring of 3 vertices or more
HasRingOfThree(code) ==
  \/ \E p \in 1..Len(GivenRings(GetEntry(state.geographyLookup, code).geometry)) :
       VertexCount(GivenRings(GetEntry(state.geographyLookup, code).geometry)[p]) >= 3
  \/ \E p \in 1..Len(GivenRings(CartogramGeometry(code))) :
       VertexCount(GivenRings(CartogramGeometry(code))[p]) >= 3

\* C26: a region has a geometry interpolator only when one of its two
\* geometries has a ring of at least 3 vertices; a region whose rings all
\* have fewer gets none, and never appears in the interpolated output.
C26_InterpolatorNeedsRing ==
  isPrepared(state) =>
    /\ \A i \in 1..Len(state.interpolators) :
         state.interpolators[i].value.status = "ok"
           => HasRingOfThree(state.interpolators[i].key)
    /\ (HeldCollection /\ held.result.status = "ok" /\ mutations = 0) =>
         \A i \in 1..Len(HeldFeatures) : HasRingOfThree(HeldFeatures[i].properties.code)

\* what holds of C26: a region has an interpolator exactly when
\* extractOuterRings finds a ring on one of the two sides
InterpolatorIffOuterRing ==
  isPrepared(state) =>
    \A i \in 1..Len(state.interpolators) :
      state.interpolators[i].value.status = "ok"
        <=> \/ Len(RegularRings(state.interpolators[i].key)) > 0
            \/ Len(extractOuterRings(CartogramGeometry(state.interpolators[i].key))) > 0

\* a grid was built from records
GridBuilt ==
  /\ grid.pc = "done"
  /\ grid.input \in CellInputs \cup OffsetInputs
  /\ grid.result.status = "ok"

\* the two values are the same number
FractionEqual(a, b) == a[1] * b[2] = b[1] * a[2]

\* the value lies between the two ends, in whichever order they are
Between(v, a, b) ==
  \/ ~FractionLess(v, a) /\ ~FractionLess(b, v)
  \/ ~FractionLess(v, b) /\ ~FractionLess(a, v)

\* the numbers of distinct bands along the two axes
BandCount(field) ==
  SetMax({grid.result.fc.features[i].properties[field] :
            i \in 1..Len(grid.result.fc.features)})
    - SetMin({grid.result.fc.features[i].properties[field] :
                i \in 1..Len(grid.result.fc.features)}) + 1

SmallestIndex(field) ==
  SetMin({grid.result.fc.features[i].properties[field] :
            i \in 1..Len(grid.result.fc.features)})

\* the side of the cell from..to lies on the band that starts at the value
\* edge of the extent and is one count-th of the way to the value other,
\* at half the padding from edge
InFirstBand(from, to, edge, other, count) ==
  /\ Between(from, <<edge, 1>>, <<edge * count + (other - edge), count>>)
  /\ Between(to, <<edge, 1>>, <<edge * count + (other - edge), count>>)
  /\ \/ FractionEqual(from, <<edge * 200 * count
                                + (other - edge) * clamp01(grid.options.cellPadding),
                              200 * count>>)
     \/ FractionEqual(to, <<edge * 200 * count
                              + (other - edge) * clamp01(grid.options.cellPadding),
                            200 * count>>)

\* the cell is in the band the orientation options name first: the topmost
\* for "top" and for a value that is not recognized, the bottommost for
\* "bottom"
InFirstRowBand(feature) ==
  IF grid.options.rowOrientation = "bottom"
  THEN InFirstBand(feature.geometry.polys[1][1][1][2], feature.geometry.polys[1][1][3][2],
                   ResolvedExtent[2], ResolvedExtent[4], BandCount("grid_row"))
  ELSE InFirstBand(feature.geometry.polys[1][1][1][2], feature.geometry.polys[1][1][3][2],
                   ResolvedExtent[4], ResolvedExtent[2], BandCount("grid_row"))

\* the leftmost band for "left" and for a value that is not recognized, the
\* rightmost for "right"
InFirstColBand(feature) ==
  IF grid.options.colOrientation = "right"
  THEN InFirstBand(feature.geometry.polys[1][1][1][1], feature.geometry.polys[1][1][3][1],
                   ResolvedExtent[3], ResolvedExtent[1], BandCount("grid_col"))
  ELSE InFirstBand(feature.geometry.polys[1][1][1][1], feature.geometry.polys[1][1][3][1],
                   ResolvedExtent[1], ResolvedExtent[3], BandCount("grid_col"))

\* C27 as stated: the record with row index 0 is in the topmost band for
\* "top" and the bottommost for "bottom", the record with column index 0
\* in the leftmost band for "left" and the rightmost for "right", whatever
\* the smallest observed index is; a value that is not recognized behaves
\* as "top" / "left".
C27_IndexZeroFirst ==
  GridBuilt =>
    \A i \in 1..Len(grid.result.fc.features) :
      /\ grid.result.fc.features[i].properties.grid_row = 0
           => InFirstRowBand(grid.result.fc.features[i])
      /\ grid.result.fc.features[i].properties.grid_col = 0
           => InFirstColBand(grid.result.fc.features[i])

\* C27 amended: the record with the smallest observed row index is in the
\* topmost band for "top" and the bottommost for "bottom", the record with
\* the smallest observed column index in the leftmost band for "left" and
\* the rightmost for "right"; a value that is not recognized behaves as
\* "top" / "left".
C27_SmallestIndexFirst ==
  GridBuilt =>
    \A i \in 1..Len(grid.result.fc.features) :
      /\ grid.result.fc.features[i].properties.grid_row = SmallestIndex("grid_row")
           => InFirstRowBand(grid.result.fc.features[i])
      /\ grid.result.fc.features[i].properties.grid_col = SmallestIndex("grid_col")
           => InFirstColBand(grid.result.fc.features[i])

\* a grid was built with orientations that are not recognized from a
\* record at row 0 and column 0 and a record at row -1 and column 1: the
\* first is in the leftmost band and below the topmost one
C27_Witness ==
  /\ GridBuilt
  /\ grid.options.rowOrientation = "sideways"
  /\ grid.options.colOrientation = "sideways"
  /\ grid.options.cellPadding = 8
  /\ grid.input = RowsInput(<<CellRecord("A", 0, 0), CellRecord("B", -1, 1)>>)
  /\ InFirstColBand(grid.result.fc.features[1])
  /\ ~InFirstRowBand(grid.result.fc.features[1])
  /\ InFirstRowBand(grid.result.fc.features[2])

\* this.state changes in the step, and what it becomes is what the call c
\* built from its own rows in the part after its await
CommitOf(c) ==
  /\ calls[c].pc = "loaded"
  /\ calls'[c].pc = "resolved"
  /\ \A d \in CallIds \ {c} : calls'[d] = calls[d]
  /\ PrepareBody(calls[c].modelData, cfg, cached, strict).status = "ok"
  /\ state' = PrepareBody(calls[c].modelData, cfg, cached, strict).state
  /\ commits' = commits + 1

\* C28: with overlapping prepare() calls the part of a call after the
\* loader await runs as one step: this.state only ever changes to the whole
\* product of one call, isPrepared() is true from the first commit on, and
\* the state stays that of the call that committed last.
C28_SingleCallStates ==
  /\ [](isPrepared(state) <=> commits >= 1)
  /\ [][state' # state => \E c \in CallIds : CommitOf(c)]_vars
  /\ [][commits' # commits => \E c \in CallIds : CommitOf(c)]_vars

\* the call started second has committed while the call started first,
\* which loaded other rows, has its part after the await still to run
C28_Witness ==
  /\ calls[1].pc = "loaded"
  /\ calls[2].pc = "resolved"
  /\ calls[1].modelData # calls[2].modelData
  /\ commits = 1
  /\ isPrepared(state)

\* the caller's regularGeoJSON holds a tag the caller pushed into a value
\* an accessor returned
InputTagged ==
  \E i \in 1..Len(cfg.regularGeoJSON.features) :
    cfg.regularGeoJSON.features[i].properties.tags # <<"t">>

RecordsValidated ==
  /\ grid.pc = "done"
  /\ grid.input.kind \in {"rows", "text", "wrapper"}
  /\ Len(grid.input.records) > 0
  /\ \A i \in 1..Len(grid.input.records) : grid.input.records[i].object
  /\ normalizeRecords(grid.input.records).status = "ok"
  /\ ensureExtent(grid.options.extent, grid.regular).status = "ok"

\* the row or column numbers of the records given
GivenNumbers(field) ==
  {ToNumber(grid.input.records[i][field]).n : i \in 1..Len(grid.input.records)}

\* two of the numbers are further apart than the largest finite number
SpanOverflows(values) == \E a \in values, b \in values : a - b > MaxFinite

\* every cell of the grid built lies in the one band along the rows
SingleRowBand ==
  /\ BandCount("grid_row") = 1
  /\ \A i \in 1..Len(grid.result.fc.features) :
       InFirstRowBand(grid.result.fc.features[i])

\* every cell of the grid built lies in the one band along the columns
SingleColBand ==
  /\ BandCount("grid_col") = 1
  /\ \A i \in 1..Len(grid.result.fc.features) :
       InFirstColBand(grid.result.fc.features[i])

\* C30 as stated: for a non-empty record set that passed record validation
\* rowCount and colCount are at least 1 and finite, so the build never
\* raises the invalid-range error, and records that all share one row or
\* one column are built with a single band along that axis.
C30_NeverInvalidRange ==
  RecordsValidated =>
    /\ grid.result.status = "ok"
    /\ Cardinality(GivenNumbers("row")) = 1 => SingleRowBand
    /\ Cardinality(GivenNumbers("col")) = 1 => SingleColBand

\* C30 amended: for a non-empty record set that passed record validation
\* the build raises the invalid-range error exactly when the difference
\* between the largest and the smallest row, or column, overflows the
\* finite numbers; every other build succeeds, and records that all share
\* one row or one column are built with a single band along that axis.
C30_InvalidRangeOnOverflow ==
  RecordsValidated =>
    /\ grid.result.status = "throw"
         <=> \/ SpanOverflows(GivenNumbers("row"))
             \/ SpanOverflows(GivenNumbers("col"))
    /\ grid.result.status = "ok" /\ Cardinality(GivenNumbers("row")) = 1
         => SingleRowBand
    /\ grid.result.status = "ok" /\ Cardinality(GivenNumbers("col")) = 1
         => SingleColBand

\* a grid was built from validated records that all share one row, at the
\* far end of the number range
C30_Witness ==
  /\ RecordsValidated
  /\ grid.result.status = "ok"
  /\ GivenNumbers("row") = {MaxFinite}
  /\ Cardinality(GivenNumbers("col")) = 2
  /\ SingleRowBand

====
